---- MODULE Spec2Model ----
(***************************************************************************)
(* A model of PlayerCore, the playback-navigation engine of RoxyRadio      *)
(* (src/src/message-bar.js, lines 91-768), and of MessageQueue, the        *)
(* rotation of the message bar (same file, lines 44-90), and of the        *)
(* keyboard navigation of a list (src/src/list-navigation.js).             *)
(*                                                                         *)
(* Times are integers counting milliseconds, so the thresholds of the      *)
(* source (0.05 s, 0.2 s, 1 s, 5 s) and strict/non-strict comparisons      *)
(* around them are exact.  Indices are 0-based as in the source; At(q, i)  *)
(* reads element i of a sequence.  An optional value (a JavaScript value   *)
(* that may be undefined, or a parse that may give NaN) is <<>> or <<x>>.  *)
(*                                                                         *)
(* Every handler of the class is an operator from the engine state (a      *)
(* record of the object's fields and of the two stores behind the          *)
(* callbacks) to a result: the state it leaves, the player callbacks it    *)
(* made, its return value and whether it threw.  The actions apply the     *)
(* handlers to the current state with their inputs drawn from small sets;  *)
(* the callbacks made and the value returned go to the caller and are not  *)
(* part of the engine state.                                               *)
(***************************************************************************)
EXTENDS Integers, Sequences, FiniteSets, TLC

VARIABLES
    phase,        \* "new" after the constructor, "ready" after init()
    playlist,     \* this.playlist
    vIdx,         \* this.vIdx, the stream index
    rIdx,         \* this.rIdx, the song index
    loopMode,     \* this.loopMode
    yapMode,      \* this.yapMode
    shuffleMode,  \* this.shuffleMode
    history,      \* this.history
    durations,    \* this.durations
    settings,     \* the durable store behind saveSettings / getSettings
    session,      \* the session store behind saveSessionData / getSessionData
    timings,      \* MessageQueue: this.timings, the entries in insertion order
    minSeconds,   \* MessageQueue: this.minSeconds
    queue,        \* MessageQueue: this.queue
    lastMessage,  \* MessageQueue: this.lastMessage
    results,      \* the messages next() has returned since the construction
    refills,      \* the places in results of the first result after each refill
    currentIndex, \* list navigation: the selected row (<<>> when not a finite number)
    totalItems,   \* list navigation: the number of rows (<<>> when not an integer)
    nav           \* list navigation: what resolveListNavigation returned last

queueVars == <<timings, minSeconds, queue, lastMessage, results, refills>>

listVars == <<currentIndex, totalItems, nav>>

engineVars == <<phase, playlist, vIdx, rIdx, loopMode, yapMode, shuffleMode,
                history, durations, settings, session>>

vars == <<engineVars, queueVars, listVars>>

---------------------------------------------------------------------------
(* Program constants (times in milliseconds). *)

LOOP_NONE == 0
LOOP_TRACK == 1
LOOP_STREAM == 2
RESTART_THRESHOLD_SECONDS == 5000
HISTORY_LIMIT == 20
SEAMLESS_GAP_SECONDS == 50
SEEK_EARLY == 200
TICK_TOLERANCE == 1000

(* Bounds of the model. *)

\* Deepest history the navigation actions of Spec build (SpecDeep has no such cap).
MaxHistory == 1
\* How many entries beyond HISTORY_LIMIT a persisted session history of SpecDeep holds.
MaxOverflow == 2
\* How many Math.random() draws one shuffle pick may take.
MaxDraws == 2

\* The longest array a message queue is built from.
MaxMessages == 3

\* The most messages a queue is asked for.
MaxResults == 7

\* The longest list the keys move in.
MaxItems == 4

---------------------------------------------------------------------------
(* Helpers. *)

None == <<>>
Some(x) == <<x>>

At(q, i) == q[i + 1]

Min(a, b) == IF a < b THEN a ELSE b
Max(a, b) == IF a > b THEN a ELSE b

\* Array.prototype.findIndex: the first 0-based index whose element satisfies P, or -1.
\* matching is the set of 1-based positions whose element satisfies the callback.
FindIndex(matching) ==
    IF matching = {} THEN -1
    ELSE (CHOOSE i \in matching : \A j \in matching : i <= j) - 1

\* The remainder operator % of JavaScript: the sign of the dividend.
JsRem(a, b) == IF a >= 0 THEN a % b ELSE -((-a) % b)

\* The decimal strings the stores hold for small integers.
Numerals == <<"-1", "0", "1", "2", "3", "4", "5", "6", "7", "8", "9">>

\* String(n), as localStorage.setItem stores a number.
IntToStr(n) == Numerals[n + 2]

\* parseInt(str, 10): the integer a leading numeral denotes, None for NaN.
parseInt(str) ==
    IF \E i \in 1..Len(Numerals) : Numerals[i] = str
    THEN Some((CHOOSE i \in 1..Len(Numerals) : Numerals[i] = str) - 2)
    ELSE IF str = "1abc" THEN Some(1)
    ELSE IF str = "2.9" THEN Some(2)
    ELSE None

\* String(b), as localStorage.setItem stores a boolean.
BoolStr(b) == IF b THEN "true" ELSE "false"

\* Number.prototype.toFixed(2): rounds to hundredths of a second (10 ms).
toFixed2(t) == ((t + 5) \div 10) * 10

---------------------------------------------------------------------------
(* The engine state as one record. *)

Self ==
    [playlist |-> playlist, vIdx |-> vIdx, rIdx |-> rIdx, loopMode |-> loopMode,
     yapMode |-> yapMode, shuffleMode |-> shuffleMode, history |-> history,
     durations |-> durations, settings |-> settings, session |-> session]

\* What a handler leaves behind.
Res(s, c, r) == [s |-> s, calls |-> c, ret |-> r, threw |-> FALSE]
Throw(s, c) == [s |-> s, calls |-> c, ret |-> None, threw |-> TRUE]

PlayVideoCall == [fn |-> "playVideo", time |-> None]
SeekToCall(t) == [fn |-> "seekTo", time |-> Some(t)]

\* The action objects nextSong / prevSong return.
LoadAction == [type |-> "load", time |-> None, reload |-> FALSE]
SeekAction(t) == [type |-> "seek", time |-> Some(t), reload |-> FALSE]
SeekReloadAction(t) == [type |-> "seek", time |-> Some(t), reload |-> TRUE]

---------------------------------------------------------------------------
(* Accessors. *)

\* this.playlist[this.vIdx]: None when vIdx is no index of the playlist.
getCurrentStream(s) ==
    IF s.vIdx >= 0 /\ s.vIdx < Len(s.playlist) THEN Some(At(s.playlist, s.vIdx)) ELSE None

\* stream.songs is null for a Rule 0 stream: modelled as the empty sequence.
HasSongs(stream) == Len(stream.songs) > 0

getStreamDefaultStart(st) ==
    IF st = None THEN 0
    ELSE IF HasSongs(st[1]) THEN At(st[1].songs, 0).range[1]
    ELSE 0

\* JSON.stringify(this.history): every entry an object with numeric fields.
stringify(h) ==
    [kind |-> "array",
     items |-> [i \in 1..Len(h) |->
                  [obj |-> TRUE, vIdx |-> Some(h[i].vIdx), rIdx |-> Some(h[i].rIdx),
                   time |-> h[i].time]]]

\* Mutant of _saveState: the history is put into the settings as well.
_saveStateHistoryInSettings(s, currentTime) ==
    LET stream == getCurrentStream(s) IN
    [s EXCEPT
       !.settings = [yapMode |-> BoolStr(s.yapMode),
                     shuffleMode |-> BoolStr(s.shuffleMode),
                     loopMode |-> IntToStr(s.loopMode),
                     vIdx |-> IntToStr(s.vIdx),
                     videoId |-> IF stream # None THEN stream[1].videoId ELSE "",
                     lastTime |-> Some(toFixed2(currentTime)),
                     history |-> stringify(s.history)],
       !.session = stringify(s.history)]

_saveState(s, currentTime) ==
    LET stream == getCurrentStream(s) IN
    [s EXCEPT
       !.settings = [yapMode |-> BoolStr(s.yapMode),
                     shuffleMode |-> BoolStr(s.shuffleMode),
                     loopMode |-> IntToStr(s.loopMode),
                     vIdx |-> IntToStr(s.vIdx),
                     videoId |-> IF stream # None THEN stream[1].videoId ELSE "",
                     lastTime |-> Some(toFixed2(currentTime))],
       !.session = stringify(s.history)]

---------------------------------------------------------------------------
(* init *)

\* The last n elements of q: Array.prototype.slice(-n).
SliceLast(q, n) == IF Len(q) > n THEN SubSeq(q, Len(q) - n + 1, Len(q)) ELSE q

\* An entry of the parsed session history passes the filter of init.
KeepEntry(h) == h.obj /\ h.vIdx # None

RestoreEntry(h) ==
    [vIdx |-> h.vIdx[1],
     rIdx |-> IF h.rIdx # None THEN h.rIdx[1] ELSE 0,
     time |-> h.time]

\* Mutant of init: the saved index is taken without the range check.
initUncheckedIndex(s, segmentData) ==
    LET pl == [i \in 1..Len(segmentData) |->
                 [videoId |-> segmentData[i].videoId,
                  name |-> segmentData[i].name,
                  title |-> IF segmentData[i].title # "" THEN segmentData[i].title
                            ELSE segmentData[i].videoId,
                  songs |-> segmentData[i].songs]]
        saved == s.settings
        savedLoop == parseInt(saved.loopMode)
        matchIdx == FindIndex({i \in 1..Len(pl) : pl[i].videoId = saved.videoId})
        restoredIndex == saved.videoId # "" /\ matchIdx # -1
        savedVIdx == parseInt(saved.vIdx)
        v == IF restoredIndex THEN matchIdx
             ELSE IF savedVIdx # None
                  THEN savedVIdx[1]
             ELSE s.vIdx
        s1 == [s EXCEPT !.playlist = pl,
                        !.yapMode = (saved.yapMode = "true"),
                        !.shuffleMode = (saved.shuffleMode = "true"),
                        !.loopMode = IF savedLoop = None THEN LOOP_NONE ELSE savedLoop[1],
                        !.vIdx = v]
        sd == s.session
        rawHistory == IF sd.kind = "array" THEN sd.items ELSE <<>>
        kept == SelectSeq(rawHistory, KeepEntry)
        restored == [i \in 1..Len(kept) |-> RestoreEntry(kept[i])]
    IN  IF sd.kind = "notArray"
        THEN Throw(s1, <<>>)
        ELSE Res([s1 EXCEPT !.history = SliceLast(restored, HISTORY_LIMIT)], <<>>, None)

\* Mutant of init: a valid saved index goes before the saved videoId.
initIndexFirst(s, segmentData) ==
    LET pl == [i \in 1..Len(segmentData) |->
                 [videoId |-> segmentData[i].videoId,
                  name |-> segmentData[i].name,
                  title |-> IF segmentData[i].title # "" THEN segmentData[i].title
                            ELSE segmentData[i].videoId,
                  songs |-> segmentData[i].songs]]
        saved == s.settings
        savedLoop == parseInt(saved.loopMode)
        matchIdx == FindIndex({i \in 1..Len(pl) : pl[i].videoId = saved.videoId})
        restoredIndex == saved.videoId # "" /\ matchIdx # -1
        savedVIdx == parseInt(saved.vIdx)
        v == IF savedVIdx # None /\ savedVIdx[1] >= 0 /\ savedVIdx[1] < Len(pl)
             THEN savedVIdx[1]
             ELSE IF restoredIndex THEN matchIdx
             ELSE s.vIdx
        s1 == [s EXCEPT !.playlist = pl,
                        !.yapMode = (saved.yapMode = "true"),
                        !.shuffleMode = (saved.shuffleMode = "true"),
                        !.loopMode = IF savedLoop = None THEN LOOP_NONE ELSE savedLoop[1],
                        !.vIdx = v]
        sd == s.session
        rawHistory == IF sd.kind = "array" THEN sd.items ELSE <<>>
        kept == SelectSeq(rawHistory, KeepEntry)
        restored == [i \in 1..Len(kept) |-> RestoreEntry(kept[i])]
    IN  IF sd.kind = "notArray"
        THEN Throw(s1, <<>>)
        ELSE Res([s1 EXCEPT !.history = SliceLast(restored, HISTORY_LIMIT)], <<>>, None)

init(s, segmentData) ==
    LET pl == [i \in 1..Len(segmentData) |->
                 [videoId |-> segmentData[i].videoId,
                  name |-> segmentData[i].name,
                  title |-> IF segmentData[i].title # "" THEN segmentData[i].title
                            ELSE segmentData[i].videoId,
                  songs |-> segmentData[i].songs]]
        saved == s.settings
        savedLoop == parseInt(saved.loopMode)
        matchIdx == FindIndex({i \in 1..Len(pl) : pl[i].videoId = saved.videoId})
        restoredIndex == saved.videoId # "" /\ matchIdx # -1
        savedVIdx == parseInt(saved.vIdx)
        v == IF restoredIndex THEN matchIdx
             ELSE IF savedVIdx # None /\ savedVIdx[1] >= 0 /\ savedVIdx[1] < Len(pl)
                  THEN savedVIdx[1]
             ELSE s.vIdx
        s1 == [s EXCEPT !.playlist = pl,
                        !.yapMode = (saved.yapMode = "true"),
                        !.shuffleMode = (saved.shuffleMode = "true"),
                        !.loopMode = IF savedLoop = None THEN LOOP_NONE ELSE savedLoop[1],
                        !.vIdx = v]
        sd == s.session
        \* JSON.parse threw (caught) or nothing was stored: an empty array
        rawHistory == IF sd.kind = "array" THEN sd.items ELSE <<>>
        kept == SelectSeq(rawHistory, KeepEntry)
        restored == [i \in 1..Len(kept) |-> RestoreEntry(kept[i])]
    IN  IF sd.kind = "notArray"
        THEN Throw(s1, <<>>)     \* rawHistory.filter is not a function
        ELSE Res([s1 EXCEPT !.history = SliceLast(restored, HISTORY_LIMIT)], <<>>, None)

---------------------------------------------------------------------------
(* Rule 0 durations and the current song. *)

\* None when there is no current stream (null) or rIdx names no song (undefined).
getCurrentSong(s) ==
    LET st == getCurrentStream(s) IN
    IF st = None THEN None
    ELSE IF ~HasSongs(st[1])
         THEN LET cached == s.durations[st[1].videoId]
                  duration == IF cached # None /\ cached[1] > 0 THEN cached[1] ELSE 0
              IN  Some([name |-> st[1].title, range |-> <<0, duration>>])
    ELSE IF s.rIdx >= 0 /\ s.rIdx < Len(st[1].songs) THEN Some(At(st[1].songs, s.rIdx))
    ELSE None

\* Mutant of setDuration: the duration is not stored.
setDurationDropped(s, videoId, duration) == Res(s, <<>>, None)

setDuration(s, videoId, duration) ==
    Res([s EXCEPT !.durations[videoId] = Some(duration)], <<>>, None)

---------------------------------------------------------------------------
(* Mode toggles. *)

toggleYap(s) ==
    LET s1 == [s EXCEPT !.yapMode = ~s.yapMode]
    IN  Res(_saveState(s1, 0), <<>>, s1.yapMode)

\* Mutant of toggleLoop: the settings are saved before the mode changes.
toggleLoopSavesFirst(s) ==
    LET s1 == _saveState(s, 0)
        s2 == [s1 EXCEPT !.loopMode = JsRem(s.loopMode + 1, 3)]
    IN  Res(s2, <<>>, s2.loopMode)

toggleLoop(s) ==
    LET s1 == [s EXCEPT !.loopMode = JsRem(s.loopMode + 1, 3)]
    IN  Res(_saveState(s1, 0), <<>>, s1.loopMode)

\* Mutant of toggleShuffle: the history survives turning shuffle off.
toggleShuffleKeepsHistory(s) ==
    LET s1 == [s EXCEPT !.shuffleMode = ~s.shuffleMode]
    IN  Res(_saveState(s1, 0), <<>>, s1.shuffleMode)

\* Mutant of toggleShuffle: the history is wiped on every toggle.
toggleShuffleAlwaysClears(s) ==
    LET s1 == [s EXCEPT !.shuffleMode = ~s.shuffleMode, !.history = <<>>]
    IN  Res(_saveState(s1, 0), <<>>, s1.shuffleMode)

toggleShuffle(s) ==
    LET wasOn == s.shuffleMode
        s1 == [s EXCEPT !.shuffleMode = ~s.shuffleMode]
        s2 == IF wasOn /\ ~s1.shuffleMode THEN [s1 EXCEPT !.history = <<>>] ELSE s1
    IN  Res(_saveState(s2, 0), <<>>, s2.shuffleMode)

---------------------------------------------------------------------------
(* Stream navigation. *)

_getHistoryPosition(s, stream) ==
    IF stream = None THEN 0
    ELSE IF ~HasSongs(stream[1]) THEN getStreamDefaultStart(stream)
    ELSE LET maxIdx == Len(stream[1].songs) - 1
             safeIdx == Min(Max(s.rIdx, 0), maxIdx)
         IN  At(stream[1].songs, safeIdx).range[1]

\* Mutant of pushHistory: past the limit the newest entry is dropped, not the oldest.
pushHistoryDropsNewest(s) ==
    LET stream == getCurrentStream(s)
        pushed == Append(s.history,
                         [vIdx |-> s.vIdx, rIdx |-> s.rIdx,
                          time |-> Some(_getHistoryPosition(s, stream))])
    IN  [s EXCEPT !.history = IF Len(pushed) > HISTORY_LIMIT
                              THEN SubSeq(pushed, 1, HISTORY_LIMIT) ELSE pushed]

pushHistory(s) ==
    LET stream == getCurrentStream(s)
        pushed == Append(s.history,
                         [vIdx |-> s.vIdx, rIdx |-> s.rIdx,
                          time |-> Some(_getHistoryPosition(s, stream))])
    IN  [s EXCEPT !.history = IF Len(pushed) > HISTORY_LIMIT THEN Tail(pushed) ELSE pushed]

\* The draws of Math.floor(Math.random() * playlist.length) one shuffle pick
\* makes: the do-while loop draws again while the draw equals vIdx, so a run of
\* the loop is some draws equal to vIdx and then one that differs.
Draws(s) ==
    IF s.shuffleMode /\ Len(s.playlist) > 1
    THEN {[i \in 1..k |-> IF i < k THEN s.vIdx ELSE last] :
             k \in 1..MaxDraws, last \in (0..(Len(s.playlist) - 1)) \ {s.vIdx}}
    ELSE {<<>>}

\* Mutant of _getNextStreamIndex: no guard for the playlist of one stream. Every
\* draw is then the current index and the loop never ends: -1 stands for the
\* index that is never returned.
_getNextStreamIndexNoGuard(s, draws) ==
    IF s.shuffleMode
    THEN IF \E i \in 1..Len(draws) : draws[i] # s.vIdx
         THEN draws[CHOOSE i \in 1..Len(draws) :
                      draws[i] # s.vIdx /\ \A j \in 1..(i - 1) : draws[j] = s.vIdx]
         ELSE -1
    ELSE IF s.vIdx < Len(s.playlist) - 1 THEN s.vIdx + 1 ELSE 0

\* Mutant of _getNextStreamIndex: the first draw is taken, equal to vIdx or not.
_getNextStreamIndexFirstDraw(s, draws) ==
    IF s.shuffleMode
    THEN IF Len(s.playlist) <= 1 THEN 0 ELSE draws[1]
    ELSE IF s.vIdx < Len(s.playlist) - 1 THEN s.vIdx + 1 ELSE 0

_getNextStreamIndex(s, draws) ==
    IF s.shuffleMode
    THEN IF Len(s.playlist) <= 1 THEN 0
         ELSE draws[CHOOSE i \in 1..Len(draws) :
                      draws[i] # s.vIdx /\ \A j \in 1..(i - 1) : draws[j] = s.vIdx]
    ELSE IF s.vIdx < Len(s.playlist) - 1 THEN s.vIdx + 1 ELSE 0

\* Mutant of nextStreamState: the stream that is left is not recorded.
nextStreamStateNoPush(s, draws) ==
    LET s2 == [s EXCEPT !.vIdx = _getNextStreamIndex(s, draws), !.rIdx = 0]
    IN  _saveState(s2, getStreamDefaultStart(getCurrentStream(s2)))

nextStreamState(s, draws) ==
    LET s1 == pushHistory(s)
        s2 == [s1 EXCEPT !.vIdx = _getNextStreamIndex(s1, draws), !.rIdx = 0]
    IN  _saveState(s2, getStreamDefaultStart(getCurrentStream(s2)))

nextStream(s, draws) == Res(nextStreamState(s, draws), <<>>, TRUE)

\* Mutant of restoredRIdx: the stored index is restored as it is.
restoredRIdxUnclamped(prev, stream) == prev.rIdx

\* The song index prevStream restores from a history entry: clamped to the songs
\* of the restored stream, 0 when it has none.
restoredRIdx(prev, stream) ==
    IF stream # None /\ HasSongs(stream[1])
    THEN Min(Max(prev.rIdx, 0), Len(stream[1].songs) - 1)
    ELSE 0

\* Mutant of prevStreamState: the newest entry is read and left in the history.
prevStreamStateKeepsEntry(s, skipHistory, draws) ==
    IF skipHistory /\ s.shuffleMode
    THEN LET s1 == [s EXCEPT !.vIdx = IF s.vIdx > 0 THEN s.vIdx - 1 ELSE Len(s.playlist) - 1,
                             !.rIdx = 0]
         IN  _saveState(s1, getStreamDefaultStart(getCurrentStream(s1)))
    ELSE IF Len(s.history) > 0
    THEN LET prev == s.history[Len(s.history)]
             s1 == [s EXCEPT !.vIdx = prev.vIdx]
             stream == getCurrentStream(s1)
             s2 == [s1 EXCEPT !.rIdx = restoredRIdx(prev, stream)]
             saveTime == IF prev.time # None /\ prev.time[1] >= 0 THEN prev.time[1]
                         ELSE getStreamDefaultStart(stream)
         IN  _saveState(s2, saveTime)
    ELSE LET v == IF s.shuffleMode THEN _getNextStreamIndex(s, draws)
                  ELSE IF s.vIdx > 0 THEN s.vIdx - 1 ELSE Len(s.playlist) - 1
             s1 == [s EXCEPT !.vIdx = v, !.rIdx = 0]
         IN  _saveState(s1, getStreamDefaultStart(getCurrentStream(s1)))

\* Mutant of prevStreamState: on an empty history shuffle is not looked at.
prevStreamStateLiteral(s, skipHistory, draws) ==
    IF skipHistory /\ s.shuffleMode
    THEN LET s1 == [s EXCEPT !.vIdx = IF s.vIdx > 0 THEN s.vIdx - 1 ELSE Len(s.playlist) - 1,
                             !.rIdx = 0]
         IN  _saveState(s1, getStreamDefaultStart(getCurrentStream(s1)))
    ELSE IF Len(s.history) > 0
    THEN LET prev == s.history[Len(s.history)]
             s1 == [s EXCEPT !.history = SubSeq(s.history, 1, Len(s.history) - 1),
                             !.vIdx = prev.vIdx]
             stream == getCurrentStream(s1)
             s2 == [s1 EXCEPT !.rIdx = restoredRIdx(prev, stream)]
             saveTime == IF prev.time # None /\ prev.time[1] >= 0 THEN prev.time[1]
                         ELSE getStreamDefaultStart(stream)
         IN  _saveState(s2, saveTime)
    ELSE LET s1 == [s EXCEPT !.vIdx = IF s.vIdx > 0 THEN s.vIdx - 1
                                      ELSE Len(s.playlist) - 1,
                             !.rIdx = 0]
         IN  _saveState(s1, getStreamDefaultStart(getCurrentStream(s1)))

\* Mutant of prevStreamState: skipHistory is not looked at.
prevStreamStateNoSkip(s, skipHistory, draws) ==
    IF Len(s.history) > 0
    THEN LET prev == s.history[Len(s.history)]
             s1 == [s EXCEPT !.history = SubSeq(s.history, 1, Len(s.history) - 1),
                             !.vIdx = prev.vIdx]
             stream == getCurrentStream(s1)
             s2 == [s1 EXCEPT !.rIdx = restoredRIdx(prev, stream)]
             saveTime == IF prev.time # None /\ prev.time[1] >= 0 THEN prev.time[1]
                         ELSE getStreamDefaultStart(stream)
         IN  _saveState(s2, saveTime)
    ELSE LET v == IF s.shuffleMode THEN _getNextStreamIndex(s, draws)
                  ELSE IF s.vIdx > 0 THEN s.vIdx - 1 ELSE Len(s.playlist) - 1
             s1 == [s EXCEPT !.vIdx = v, !.rIdx = 0]
         IN  _saveState(s1, getStreamDefaultStart(getCurrentStream(s1)))

prevStreamState(s, skipHistory, draws) ==
    IF skipHistory /\ s.shuffleMode
    THEN LET s1 == [s EXCEPT !.vIdx = IF s.vIdx > 0 THEN s.vIdx - 1 ELSE Len(s.playlist) - 1,
                             !.rIdx = 0]
         IN  _saveState(s1, getStreamDefaultStart(getCurrentStream(s1)))
    ELSE IF Len(s.history) > 0
    THEN LET prev == s.history[Len(s.history)]
             s1 == [s EXCEPT !.history = SubSeq(s.history, 1, Len(s.history) - 1),
                             !.vIdx = prev.vIdx]
             stream == getCurrentStream(s1)
             s2 == [s1 EXCEPT !.rIdx = restoredRIdx(prev, stream)]
             saveTime == IF prev.time # None /\ prev.time[1] >= 0 THEN prev.time[1]
                         ELSE getStreamDefaultStart(stream)
         IN  _saveState(s2, saveTime)
    ELSE LET v == IF s.shuffleMode THEN _getNextStreamIndex(s, draws)
                  ELSE IF s.vIdx > 0 THEN s.vIdx - 1 ELSE Len(s.playlist) - 1
             s1 == [s EXCEPT !.vIdx = v, !.rIdx = 0]
         IN  _saveState(s1, getStreamDefaultStart(getCurrentStream(s1)))

prevStream(s, skipHistory, draws) == Res(prevStreamState(s, skipHistory, draws), <<>>, TRUE)

---------------------------------------------------------------------------
(* Time Sync. *)

\* currentTime lies inside the song: [start, end).
InRange(t, song) == t >= song.range[1] /\ t < song.range[2]

\* songs.findIndex(s => currentTime >= s.range[0] && currentTime < s.range[1])
SongIndexAt(t, songs) == FindIndex({i \in 1..Len(songs) : InRange(t, songs[i])})

\* The first gap (as the 0-based index of the song before it) holding t, or -1.
\* Mutant of GapIndexAt: the gap is named by the song after it.
GapIndexAtNext(t, songs) ==
    LET InGap(i) == t >= songs[i].range[2] /\ t < songs[i + 1].range[1] IN
    IF \E i \in 1..(Len(songs) - 1) : InGap(i)
    THEN CHOOSE i \in 1..(Len(songs) - 1) : InGap(i) /\ \A j \in 1..(i - 1) : ~InGap(j)
    ELSE -1

GapIndexAt(t, songs) ==
    LET InGap(i) == t >= songs[i].range[2] /\ t < songs[i + 1].range[1] IN
    IF \E i \in 1..(Len(songs) - 1) : InGap(i)
    THEN (CHOOSE i \in 1..(Len(songs) - 1) : InGap(i) /\ \A j \in 1..(i - 1) : ~InGap(j)) - 1
    ELSE -1

\* Mutant of _syncIndexToTime: in a gap, an index already on the song before the
\* gap steps on to the song after it.
_syncIndexToTimeSteps(s, currentTime, stream) ==
    IF stream = None \/ ~HasSongs(stream[1]) THEN [s |-> s, ctx |-> "none"]
    ELSE LET songs == stream[1].songs
             matchIdx == SongIndexAt(currentTime, songs)
             gapIdx == GapIndexAt(currentTime, songs)
         IN  IF matchIdx # -1 THEN [s |-> [s EXCEPT !.rIdx = matchIdx], ctx |-> "inside"]
             ELSE IF currentTime < songs[1].range[1]
                  THEN [s |-> [s EXCEPT !.rIdx = 0], ctx |-> "before"]
             ELSE IF currentTime >= songs[Len(songs)].range[2]
                  THEN [s |-> [s EXCEPT !.rIdx = Len(songs) - 1], ctx |-> "after"]
             ELSE IF gapIdx # -1
                  THEN [s |-> [s EXCEPT !.rIdx = IF s.rIdx = gapIdx THEN gapIdx + 1 ELSE gapIdx],
                        ctx |-> "gap"]
             ELSE [s |-> s, ctx |-> "none"]

\* Returns the state with rIdx re-anchored, and the position context.
_syncIndexToTime(s, currentTime, stream) ==
    IF stream = None \/ ~HasSongs(stream[1]) THEN [s |-> s, ctx |-> "none"]
    ELSE LET songs == stream[1].songs
             matchIdx == SongIndexAt(currentTime, songs)
             gapIdx == GapIndexAt(currentTime, songs)
         IN  IF matchIdx # -1 THEN [s |-> [s EXCEPT !.rIdx = matchIdx], ctx |-> "inside"]
             ELSE IF currentTime < songs[1].range[1]
                  THEN [s |-> [s EXCEPT !.rIdx = 0], ctx |-> "before"]
             ELSE IF currentTime >= songs[Len(songs)].range[2]
                  THEN [s |-> [s EXCEPT !.rIdx = Len(songs) - 1], ctx |-> "after"]
             ELSE IF gapIdx # -1 THEN [s |-> [s EXCEPT !.rIdx = gapIdx], ctx |-> "gap"]
             ELSE [s |-> s, ctx |-> "none"]

syncToTime(s, currentTime) ==
    Res(_syncIndexToTime(s, currentTime, getCurrentStream(s)).s, <<>>, None)

\* The loop of normalizeResumeTime from song i on (0-based).
RECURSIVE normalizeLoop(_, _, _, _)
normalizeLoop(s, songs, time, i) ==
    IF i >= Len(songs) THEN Res([s EXCEPT !.rIdx = Len(songs) - 1], <<>>, time)
    ELSE LET current == At(songs, i) IN
         IF time >= current.range[1] /\ time < current.range[2]
         THEN Res([s EXCEPT !.rIdx = i], <<>>, time)
         ELSE IF i + 1 < Len(songs) /\ time >= current.range[2]
                 /\ time < At(songs, i + 1).range[1]
         THEN Res([s EXCEPT !.rIdx = i + 1], <<>>, At(songs, i + 1).range[1])
         ELSE normalizeLoop(s, songs, time, i + 1)

\* Mutant of normalizeResumeTime: the time is classified as Time Sync does and
\* returned as it is, also in a gap.
normalizeResumeTimeAsSync(s, timeSeconds) ==
    LET time == IF timeSeconds < 0 THEN 0 ELSE timeSeconds
        stream == getCurrentStream(s)
    IN  IF stream = None THEN Res(s, <<>>, time)
        ELSE IF ~HasSongs(stream[1]) \/ s.yapMode THEN Res(s, <<>>, time)
        ELSE Res(_syncIndexToTime(s, time, stream).s, <<>>, time)

normalizeResumeTime(s, timeSeconds) ==
    LET time == IF timeSeconds < 0 THEN 0 ELSE timeSeconds
        stream == getCurrentStream(s)
    IN  IF stream = None THEN Res(s, <<>>, time)
        ELSE IF ~HasSongs(stream[1]) \/ s.yapMode THEN Res(s, <<>>, time)
        ELSE IF time < At(stream[1].songs, 0).range[1]
             THEN Res([s EXCEPT !.rIdx = 0], <<>>, time)
        ELSE normalizeLoop(s, stream[1].songs, time, 0)

---------------------------------------------------------------------------
(* Status text. A text is the sequence of the pieces the template strings join. *)

_findSongIndexForTime(s, currentTime, songs) ==
    LET matchIdx == SongIndexAt(currentTime, songs) IN
    IF matchIdx # -1 THEN matchIdx
    ELSE IF s.rIdx >= 0 /\ s.rIdx < Len(songs) THEN s.rIdx
    ELSE 0

_getActiveSongDisplayInfo(s, currentTime, songs) ==
    LET idx == _findSongIndexForTime(s, currentTime, songs)
        safeIdx == IF idx >= 0 /\ idx < Len(songs) THEN idx ELSE 0
        song == At(songs, safeIdx)
    IN  [name |-> IF song.name # "" THEN song.name ELSE "Unknown Track",
         index |-> safeIdx]

\* None for null: the time is in no gap, or the "Next: first song" text is held back.
_getGapStatus(s, currentTime, songs, suffix) ==
    LET gapIdx == GapIndexAt(currentTime, songs) IN
    IF currentTime < songs[1].range[1]
    THEN IF s.rIdx > 0 /\ s.rIdx < Len(songs) THEN None
         ELSE Some(<<"Next: ", songs[1].name, " ", "(1/", IntToStr(Len(songs)), ")">> \o suffix)
    ELSE IF gapIdx # -1
    THEN Some(<<"Next: ", At(songs, gapIdx + 1).name, " ",
                "(", IntToStr(gapIdx + 2), "/", IntToStr(Len(songs)), ")">> \o suffix)
    ELSE IF currentTime >= songs[Len(songs)].range[2]
    THEN Some(<<"Stream Ending...">>)
    ELSE None

getStatusText(s, currentTime) ==
    LET stream == getCurrentStream(s)
        suffix == IF s.yapMode THEN <<" with Yapping">> ELSE <<>>
    IN  IF stream = None THEN <<"Loading...">>
        ELSE IF ~HasSongs(stream[1])
        THEN <<IF stream[1].title # "" THEN stream[1].title ELSE "Unknown Video",
               " (1/1)">> \o suffix
        ELSE LET songs == stream[1].songs
                 gapStatus == _getGapStatus(s, currentTime, songs, suffix)
                 info == _getActiveSongDisplayInfo(s, currentTime, songs)
             IN  IF gapStatus # None THEN gapStatus[1]
                 ELSE <<info.name, " (", IntToStr(info.index + 1), "/",
                        IntToStr(Len(songs)), ")">> \o suffix

---------------------------------------------------------------------------
(* Song navigation. *)

\* Mutant of nextSong: the 'before' context is not looked at, so the step from
\* before the first song lands on song 1.
nextSongSkipsBefore(s, currentTime, draws) ==
    LET stream == getCurrentStream(s)
        sync == _syncIndexToTime(s, currentTime, stream)
        s1 == sync.s
        posContext == sync.ctx
        jumpToNextStreamStart == Res(nextStreamState(s1, draws), <<>>, LoadAction)
    IN  IF stream = None THEN Throw(s1, <<>>)
        ELSE LET songs == stream[1].songs IN
        IF ~HasSongs(stream[1])
        THEN IF s1.loopMode = LOOP_STREAM
             THEN Res(s1, <<>>, SeekAction(getStreamDefaultStart(stream)))
             ELSE jumpToNextStreamStart
        ELSE IF posContext = "after"
        THEN IF s1.loopMode = LOOP_STREAM
             THEN Res([s1 EXCEPT !.rIdx = 0], <<>>, LoadAction)
             ELSE jumpToNextStreamStart
        ELSE IF s1.yapMode
        THEN IF s1.rIdx < Len(songs) - 1
             THEN Res([s1 EXCEPT !.rIdx = s1.rIdx + 1], <<>>,
                      SeekAction(At(songs, s1.rIdx + 1).range[1]))
             ELSE jumpToNextStreamStart
        ELSE IF s1.rIdx < Len(songs) - 1
        THEN Res([s1 EXCEPT !.rIdx = s1.rIdx + 1], <<>>, LoadAction)
        ELSE IF s1.loopMode = LOOP_STREAM
        THEN Res([s1 EXCEPT !.rIdx = 0], <<>>, LoadAction)
        ELSE jumpToNextStreamStart

nextSong(s, currentTime, draws) ==
    LET stream == getCurrentStream(s)
        sync == _syncIndexToTime(s, currentTime, stream)
        s1 == sync.s
        posContext == sync.ctx
        jumpToNextStreamStart == Res(nextStreamState(s1, draws), <<>>, LoadAction)
    IN  IF stream = None THEN Throw(s1, <<>>)     \* stream.songs of undefined
        ELSE LET songs == stream[1].songs IN
        IF ~HasSongs(stream[1])
        THEN IF s1.loopMode = LOOP_STREAM
             THEN Res(s1, <<>>, SeekAction(getStreamDefaultStart(stream)))
             ELSE jumpToNextStreamStart
        ELSE IF posContext = "before"
        THEN Res([s1 EXCEPT !.rIdx = 0], <<>>,
                 IF s1.yapMode THEN SeekAction(At(songs, 0).range[1]) ELSE LoadAction)
        ELSE IF posContext = "after"
        THEN IF s1.loopMode = LOOP_STREAM
             THEN Res([s1 EXCEPT !.rIdx = 0], <<>>, LoadAction)
             ELSE jumpToNextStreamStart
        ELSE IF s1.yapMode
        THEN IF s1.rIdx < Len(songs) - 1
             THEN Res([s1 EXCEPT !.rIdx = s1.rIdx + 1], <<>>,
                      SeekAction(At(songs, s1.rIdx + 1).range[1]))
             ELSE jumpToNextStreamStart
        ELSE IF s1.rIdx < Len(songs) - 1
        THEN Res([s1 EXCEPT !.rIdx = s1.rIdx + 1], <<>>, LoadAction)
        ELSE IF s1.loopMode = LOOP_STREAM
        THEN Res([s1 EXCEPT !.rIdx = 0], <<>>, LoadAction)
        ELSE jumpToNextStreamStart

\* Mutant of prevSong: inside a song, the restart starts at the threshold itself.
prevSongRestartAtThreshold(s, currentTime, draws) ==
    LET stream == getCurrentStream(s)
        sync == _syncIndexToTime(s, currentTime, stream)
        s1 == sync.s
        posContext == sync.ctx
        jumpToPreviousStreamEnd ==
            LET s2 == prevStreamState(s1, FALSE, draws)
                prev == getCurrentStream(s2)
            IN  IF prev # None /\ HasSongs(prev[1])
                THEN Res([s2 EXCEPT !.rIdx = Len(prev[1].songs) - 1], <<>>, LoadAction)
                ELSE Res(s2, <<>>, LoadAction)
    IN  IF stream = None THEN Throw(s1, <<>>)     \* stream.songs of undefined
        ELSE LET songs == stream[1].songs
                 last == Len(songs) - 1
             IN
        IF ~HasSongs(stream[1])
        THEN LET start == getStreamDefaultStart(stream) IN
             IF currentTime - start > RESTART_THRESHOLD_SECONDS
             THEN Res(s1, <<>>, SeekAction(start))
             ELSE IF s1.loopMode = LOOP_STREAM THEN Res(s1, <<>>, SeekAction(start))
             ELSE jumpToPreviousStreamEnd
        ELSE IF posContext = "before"
        THEN IF s1.loopMode = LOOP_STREAM
             THEN Res([s1 EXCEPT !.rIdx = last], <<>>,
                      IF s1.yapMode THEN SeekAction(At(songs, last).range[1])
                      ELSE SeekReloadAction(At(songs, last).range[1]))
             ELSE jumpToPreviousStreamEnd
        ELSE IF posContext = "gap" \/ posContext = "after"
        THEN Res(s1, <<>>,
                 IF s1.yapMode THEN SeekAction(At(songs, s1.rIdx).range[1]) ELSE LoadAction)
        ELSE LET start == At(songs, s1.rIdx).range[1] IN
             IF currentTime - start >= RESTART_THRESHOLD_SECONDS
             THEN Res(s1, <<>>, SeekAction(start))
             ELSE IF s1.rIdx > 0
             THEN Res([s1 EXCEPT !.rIdx = s1.rIdx - 1], <<>>,
                      IF s1.yapMode THEN SeekAction(At(songs, s1.rIdx - 1).range[1])
                      ELSE LoadAction)
             ELSE IF s1.loopMode = LOOP_STREAM
             THEN Res([s1 EXCEPT !.rIdx = last], <<>>,
                      IF s1.yapMode THEN SeekAction(At(songs, last).range[1])
                      ELSE SeekReloadAction(At(songs, last).range[1]))
             ELSE jumpToPreviousStreamEnd

\* Mutant of prevSong: a Rule 0 stream restarts while less than the threshold
\* has played.
prevSongRule0RestartsEarly(s, currentTime, draws) ==
    LET stream == getCurrentStream(s)
        sync == _syncIndexToTime(s, currentTime, stream)
        s1 == sync.s
        posContext == sync.ctx
        jumpToPreviousStreamEnd ==
            LET s2 == prevStreamState(s1, FALSE, draws)
                prev == getCurrentStream(s2)
            IN  IF prev # None /\ HasSongs(prev[1])
                THEN Res([s2 EXCEPT !.rIdx = Len(prev[1].songs) - 1], <<>>, LoadAction)
                ELSE Res(s2, <<>>, LoadAction)
    IN  IF stream = None THEN Throw(s1, <<>>)     \* stream.songs of undefined
        ELSE LET songs == stream[1].songs
                 last == Len(songs) - 1
             IN
        IF ~HasSongs(stream[1])
        THEN LET start == getStreamDefaultStart(stream) IN
             IF currentTime - start < RESTART_THRESHOLD_SECONDS
             THEN Res(s1, <<>>, SeekAction(start))
             ELSE IF s1.loopMode = LOOP_STREAM THEN Res(s1, <<>>, SeekAction(start))
             ELSE jumpToPreviousStreamEnd
        ELSE IF posContext = "before"
        THEN IF s1.loopMode = LOOP_STREAM
             THEN Res([s1 EXCEPT !.rIdx = last], <<>>,
                      IF s1.yapMode THEN SeekAction(At(songs, last).range[1])
                      ELSE SeekReloadAction(At(songs, last).range[1]))
             ELSE jumpToPreviousStreamEnd
        ELSE IF posContext = "gap" \/ posContext = "after"
        THEN Res(s1, <<>>,
                 IF s1.yapMode THEN SeekAction(At(songs, s1.rIdx).range[1]) ELSE LoadAction)
        ELSE LET start == At(songs, s1.rIdx).range[1] IN
             IF currentTime - start > RESTART_THRESHOLD_SECONDS
             THEN Res(s1, <<>>, SeekAction(start))
             ELSE IF s1.rIdx > 0
             THEN Res([s1 EXCEPT !.rIdx = s1.rIdx - 1], <<>>,
                      IF s1.yapMode THEN SeekAction(At(songs, s1.rIdx - 1).range[1])
                      ELSE LoadAction)
             ELSE IF s1.loopMode = LOOP_STREAM
             THEN Res([s1 EXCEPT !.rIdx = last], <<>>,
                      IF s1.yapMode THEN SeekAction(At(songs, last).range[1])
                      ELSE SeekReloadAction(At(songs, last).range[1]))
             ELSE jumpToPreviousStreamEnd

prevSong(s, currentTime, draws) ==
    LET stream == getCurrentStream(s)
        sync == _syncIndexToTime(s, currentTime, stream)
        s1 == sync.s
        posContext == sync.ctx
        jumpToPreviousStreamEnd ==
            LET s2 == prevStreamState(s1, FALSE, draws)
                prev == getCurrentStream(s2)
            IN  IF prev # None /\ HasSongs(prev[1])
                THEN Res([s2 EXCEPT !.rIdx = Len(prev[1].songs) - 1], <<>>, LoadAction)
                ELSE Res(s2, <<>>, LoadAction)
    IN  IF stream = None THEN Throw(s1, <<>>)     \* stream.songs of undefined
        ELSE LET songs == stream[1].songs
                 last == Len(songs) - 1
             IN
        IF ~HasSongs(stream[1])
        THEN LET start == getStreamDefaultStart(stream) IN
             IF currentTime - start > RESTART_THRESHOLD_SECONDS
             THEN Res(s1, <<>>, SeekAction(start))
             ELSE IF s1.loopMode = LOOP_STREAM THEN Res(s1, <<>>, SeekAction(start))
             ELSE jumpToPreviousStreamEnd
        ELSE IF posContext = "before"
        THEN IF s1.loopMode = LOOP_STREAM
             THEN Res([s1 EXCEPT !.rIdx = last], <<>>,
                      IF s1.yapMode THEN SeekAction(At(songs, last).range[1])
                      ELSE SeekReloadAction(At(songs, last).range[1]))
             ELSE jumpToPreviousStreamEnd
        ELSE IF posContext = "gap" \/ posContext = "after"
        THEN Res(s1, <<>>,
                 IF s1.yapMode THEN SeekAction(At(songs, s1.rIdx).range[1]) ELSE LoadAction)
        ELSE LET start == At(songs, s1.rIdx).range[1] IN
             IF currentTime - start > RESTART_THRESHOLD_SECONDS
             THEN Res(s1, <<>>, SeekAction(start))
             ELSE IF s1.rIdx > 0
             THEN Res([s1 EXCEPT !.rIdx = s1.rIdx - 1], <<>>,
                      IF s1.yapMode THEN SeekAction(At(songs, s1.rIdx - 1).range[1])
                      ELSE LoadAction)
             ELSE IF s1.loopMode = LOOP_STREAM
             THEN Res([s1 EXCEPT !.rIdx = last], <<>>,
                      IF s1.yapMode THEN SeekAction(At(songs, last).range[1])
                      ELSE SeekReloadAction(At(songs, last).range[1]))
             ELSE jumpToPreviousStreamEnd

---------------------------------------------------------------------------
(* Playback tick logic. *)

\* Mutant of advanceAuto: LOOP_TRACK is not looked at.
advanceAutoNoLoopTrack(s, draws) ==
    LET stream == getCurrentStream(s) IN
    IF stream = None THEN Throw(s, <<>>)
    ELSE IF ~HasSongs(stream[1])
    THEN IF s.loopMode = LOOP_STREAM THEN Res(s, <<SeekToCall(0)>>, None)
         ELSE Res(nextStreamState(s, draws), <<PlayVideoCall>>, None)
    ELSE IF s.rIdx < Len(stream[1].songs) - 1
    THEN Res([s EXCEPT !.rIdx = s.rIdx + 1], <<PlayVideoCall>>, None)
    ELSE IF s.loopMode = LOOP_STREAM
    THEN Res([s EXCEPT !.rIdx = 0], <<PlayVideoCall>>, None)
    ELSE Res(nextStreamState(s, draws), <<PlayVideoCall>>, None)

\* Mutant of advanceAuto: at the last song LOOP_STREAM is not looked at.
advanceAutoLeavesStream(s, draws) ==
    LET stream == getCurrentStream(s)
        song == getCurrentSong(s)
    IN  IF s.loopMode = LOOP_TRACK
        THEN IF song = None THEN Throw(s, <<>>)
             ELSE Res(s, <<SeekToCall(song[1].range[1])>>, None)
        ELSE IF stream = None THEN Throw(s, <<>>)
        ELSE IF ~HasSongs(stream[1])
        THEN IF s.loopMode = LOOP_STREAM THEN Res(s, <<SeekToCall(0)>>, None)
             ELSE Res(nextStreamState(s, draws), <<PlayVideoCall>>, None)
        ELSE IF s.rIdx < Len(stream[1].songs) - 1
        THEN Res([s EXCEPT !.rIdx = s.rIdx + 1], <<PlayVideoCall>>, None)
        ELSE Res(nextStreamState(s, draws), <<PlayVideoCall>>, None)

advanceAuto(s, draws) ==
    LET stream == getCurrentStream(s)
        song == getCurrentSong(s)
    IN  IF s.loopMode = LOOP_TRACK
        THEN IF song = None THEN Throw(s, <<>>)     \* range of null / undefined
             ELSE Res(s, <<SeekToCall(song[1].range[1])>>, None)
        ELSE IF stream = None THEN Throw(s, <<>>)   \* stream.songs of undefined
        ELSE IF ~HasSongs(stream[1])
        THEN IF s.loopMode = LOOP_STREAM THEN Res(s, <<SeekToCall(0)>>, None)
             ELSE Res(nextStreamState(s, draws), <<PlayVideoCall>>, None)
        ELSE IF s.rIdx < Len(stream[1].songs) - 1
        THEN Res([s EXCEPT !.rIdx = s.rIdx + 1], <<PlayVideoCall>>, None)
        ELSE IF s.loopMode = LOOP_STREAM
        THEN Res([s EXCEPT !.rIdx = 0], <<PlayVideoCall>>, None)
        ELSE Res(nextStreamState(s, draws), <<PlayVideoCall>>, None)

onVideoEnded(s, draws) == advanceAuto(s, draws)

Abs(x) == IF x < 0 THEN -x ELSE x

\* Mutant of hasSeamlessNext: only a following song that overlaps counts.
hasSeamlessNextOverlap(songs, r) ==
    /\ r + 1 < Len(songs)
    /\ At(songs, r + 1).range[1] - At(songs, r).range[2] < 0

\* Mutant of hasSeamlessNext: the threshold itself is excluded.
hasSeamlessNextStrict(songs, r) ==
    /\ r + 1 < Len(songs)
    /\ Abs(At(songs, r + 1).range[1] - At(songs, r).range[2]) < SEAMLESS_GAP_SECONDS

\* The song after song r starts within SEAMLESS_GAP_SECONDS of its end.
hasSeamlessNext(songs, r) ==
    /\ r + 1 < Len(songs)
    /\ Abs(At(songs, r + 1).range[1] - At(songs, r).range[2]) <= SEAMLESS_GAP_SECONDS

\* Mutant of checkTickStandard: any time past the early-advance lead advances,
\* however far from the tracked song it is.
checkTickStandardSnaps(s, currentTime, draws, songs) ==
    IF ~(s.rIdx >= 0 /\ s.rIdx < Len(songs)) THEN Throw(s, <<>>)
    ELSE IF currentTime >= At(songs, s.rIdx).range[2] - SEEK_EARLY
         THEN advanceAuto(s, draws)
         ELSE Res(s, <<>>, None)

\* checkTick in standard mode (yap off), on a stream with songs.
checkTickStandard(s, currentTime, draws, songs) ==
    IF ~(s.rIdx >= 0 /\ s.rIdx < Len(songs)) THEN Throw(s, <<>>)  \* range of undefined
    ELSE LET currentSong == At(songs, s.rIdx) IN
    IF currentTime < currentSong.range[1] - TICK_TOLERANCE
       \/ currentTime > currentSong.range[2] + TICK_TOLERANCE
    THEN LET matchIdx == SongIndexAt(currentTime, songs) IN
         IF matchIdx # -1 THEN Res([s EXCEPT !.rIdx = matchIdx], <<>>, None)
         ELSE Res(s, <<>>, None)
    ELSE IF ~hasSeamlessNext(songs, s.rIdx) /\ currentTime >= currentSong.range[2] - SEEK_EARLY
         THEN advanceAuto(s, draws)
         ELSE Res(s, <<>>, None)

\* Mutant of checkTick: yap mode advances near the end of the tracked song
\* instead of the last one.
checkTickYapTrackedEnd(s, currentTime, draws) ==
    LET stream == getCurrentStream(s) IN
    IF stream = None THEN Res(s, <<>>, None)
    ELSE IF ~HasSongs(stream[1]) THEN Res(s, <<>>, None)
    ELSE LET songs == stream[1].songs IN
    IF s.yapMode
    THEN LET s1 == _syncIndexToTime(s, currentTime, stream).s
             tracked == At(songs, s1.rIdx)
         IN  IF currentTime >= tracked.range[2] - SEEK_EARLY
             THEN Res(nextStreamState(s1, draws), <<PlayVideoCall>>, None)
             ELSE Res(s1, <<>>, None)
    ELSE checkTickStandard(s, currentTime, draws, songs)

checkTick(s, currentTime, draws) ==
    LET stream == getCurrentStream(s) IN
    IF stream = None THEN Res(s, <<>>, None)
    ELSE IF ~HasSongs(stream[1]) THEN Res(s, <<>>, None)
    ELSE LET songs == stream[1].songs IN
    IF s.yapMode
    THEN LET s1 == _syncIndexToTime(s, currentTime, stream).s
             lastSong == songs[Len(songs)]
         IN  IF currentTime >= lastSong.range[2] - SEEK_EARLY
             THEN Res(nextStreamState(s1, draws), <<PlayVideoCall>>, None)
             ELSE Res(s1, <<>>, None)
    ELSE checkTickStandard(s, currentTime, draws, songs)

---------------------------------------------------------------------------
(* MessageQueue: the rotation of the messages of the message bar. *)

\* A value of the messages array: a string holding so many words (none for an
\* empty or blank string), or a value that is not a string.
Msg(text, words) == [isString |-> TRUE, text |-> text, words |-> words]
NullMessage == [isString |-> FALSE, text |-> "", words |-> 0]

\* Durations in milliseconds.
calculateReadingTime(msg, wpm, minSecs) ==
    IF ~msg.isString \/ msg.words = 0 THEN minSecs
    ELSE Max((msg.words * 60000) \div wpm, minSecs)

\* Map.prototype.set on a map held as its entries in insertion order.
MapSet(map, key, value) ==
    IF \E i \in 1..Len(map) : map[i].key = key
    THEN [i \in 1..Len(map) |->
             IF map[i].key = key THEN [key |-> key, value |-> value] ELSE map[i]]
    ELSE Append(map, [key |-> key, value |-> value])

RECURSIVE buildTimingMapFrom(_, _, _, _, _)
buildTimingMapFrom(map, messages, i, wpm, minSecs) ==
    IF i > Len(messages) THEN map
    ELSE LET msg == messages[i] IN
         IF msg.isString /\ msg.words > 0
         THEN buildTimingMapFrom(
                  MapSet(map, msg.text, calculateReadingTime(msg, wpm, minSecs)),
                  messages, i + 1, wpm, minSecs)
         ELSE buildTimingMapFrom(map, messages, i + 1, wpm, minSecs)

buildTimingMap(messages, wpm, minSecs) ==
    buildTimingMapFrom(<<>>, messages, 1, wpm, minSecs)

\* [...this.timings.keys()]
Keys(map) == [i \in 1..Len(map) |-> map[i].key]

\* The values Math.floor(Math.random() * (i + 1)) may take for i = n - 1 down
\* to 1, one per round of the Fisher-Yates loop on n elements.
Picks(n) ==
    IF n <= 1 THEN {<<>>}
    ELSE {pk \in [1..(n - 1) -> 0..(n - 1)] : \A i \in 1..(n - 1) : pk[i] <= i}

\* The values 1 + Math.floor(Math.random() * (n - 1)) may take.
SwapPicks(n) == IF n <= 1 THEN {1} ELSE 1..(n - 1)

\* [q[a], q[b]] = [q[b], q[a]] on 0-based places.
Swap(q, a, b) ==
    [i \in 1..Len(q) |-> IF i = a + 1 THEN q[b + 1] ELSE IF i = b + 1 THEN q[a + 1] ELSE q[i]]

RECURSIVE shuffleLoop(_, _, _)
shuffleLoop(shuffled, i, picks) ==
    IF i <= 0 THEN shuffled
    ELSE shuffleLoop(Swap(shuffled, i, picks[i]), i - 1, picks)

shuffleArray(arr, picks) == shuffleLoop(arr, Len(arr) - 1, picks)

\* The queue object as one record.
TheQueue ==
    [timings |-> timings, minSeconds |-> minSeconds, queue |-> queue,
     lastMessage |-> lastMessage]

\* Mutant of refillQueue: the new cycle is used as shuffled, whatever came last.
refillQueueNoSwap(q, picks, swapIdx) ==
    [q EXCEPT !.queue = shuffleArray(Keys(q.timings), picks)]

refillQueue(q, picks, swapIdx) ==
    LET shuffled == shuffleArray(Keys(q.timings), picks) IN
    IF q.lastMessage # None /\ Len(shuffled) > 1 /\ shuffled[1] = q.lastMessage[1]
    THEN [q EXCEPT !.queue = Swap(shuffled, 0, swapIdx)]
    ELSE [q EXCEPT !.queue = shuffled]

MessageQueue(messages, wpm, minSecs, picks) ==
    refillQueue([timings |-> buildTimingMap(messages, wpm, minSecs),
                 minSeconds |-> minSecs, queue |-> <<>>, lastMessage |-> None],
                picks, 1)

\* timings.get(message) || minSeconds
DurationOf(q, message) ==
    LET value == (CHOOSE e \in {q.timings[i] : i \in 1..Len(q.timings)} :
                      e.key = message).value
    IN  IF value # 0 THEN value ELSE q.minSeconds

\* The queue it leaves, what it returns (None for null) and whether it refilled.
\* Mutant of next: the queue is refilled when one message is left in it.
nextRefillsEarly(q, picks, swapIdx) ==
    IF Len(q.timings) = 0 THEN [s |-> q, ret |-> None, refilled |-> FALSE]
    ELSE LET refilled == Len(q.queue) <= 1
             q1 == IF refilled THEN refillQueue(q, picks, swapIdx) ELSE q
             message == Head(q1.queue)
         IN  [s |-> [q1 EXCEPT !.queue = Tail(q1.queue), !.lastMessage = Some(message)],
              ret |-> Some([message |-> message, duration |-> DurationOf(q1, message)]),
              refilled |-> refilled]

next(q, picks, swapIdx) ==
    IF Len(q.timings) = 0 THEN [s |-> q, ret |-> None, refilled |-> FALSE]
    ELSE LET refilled == Len(q.queue) = 0
             q1 == IF refilled THEN refillQueue(q, picks, swapIdx) ELSE q
             message == Head(q1.queue)
         IN  [s |-> [q1 EXCEPT !.queue = Tail(q1.queue), !.lastMessage = Some(message)],
              ret |-> Some([message |-> message, duration |-> DurationOf(q1, message)]),
              refilled |-> refilled]

---------------------------------------------------------------------------
(* List navigation (list-navigation.js). A number is <<n>>; <<>> is a value  *)
(* that is not a finite number (index) or not an integer (totalItems).       *)

NAV_ACTION_MOVE == "move"
NAV_ACTION_SELECT == "select"
NAV_ACTION_NONE == "none"

\* Mutant of clampIndex: an index beyond the list is not brought back.
clampIndexNoUpper(index, maxIndex) ==
    IF index = None THEN 0
    ELSE IF index[1] < 0 THEN 0
    ELSE index[1]

clampIndex(index, maxIndex) ==
    IF index = None THEN 0
    ELSE IF index[1] < 0 THEN 0
    ELSE IF index[1] > maxIndex THEN maxIndex
    ELSE index[1]

NavResult(handled, nextIndex, action) ==
    [handled |-> handled, nextIndex |-> nextIndex, action |-> action]

resolveListNavigation(key, index, total) ==
    LET maxIndex == IF total # None THEN total[1] - 1 ELSE -1
        safeIndex == clampIndex(index, maxIndex)
    IN  IF maxIndex < 0 THEN NavResult(FALSE, 0, NAV_ACTION_NONE)
        ELSE IF key = "ArrowDown"
        THEN NavResult(TRUE, Min(safeIndex + 1, maxIndex), NAV_ACTION_MOVE)
        ELSE IF key = "ArrowUp"
        THEN NavResult(TRUE, Max(safeIndex - 1, 0), NAV_ACTION_MOVE)
        ELSE IF key = "Enter"
        THEN NavResult(TRUE, safeIndex, NAV_ACTION_SELECT)
        ELSE NavResult(FALSE, safeIndex, NAV_ACTION_NONE)

---------------------------------------------------------------------------
(* The data the engine runs on. *)

Song(n, a, b) == [name |-> n, range |-> <<a, b>>]

\* MOCK_SEGMENTS v1 (and the stream of Examples A and B): a 10 s gap.
StreamGap ==
    [videoId |-> "v1", name |-> "", title |-> "Video 1",
     songs |-> <<Song("S1T1", 0, 10000), Song("S1T2", 20000, 30000)>>]

\* MOCK_SEGMENTS v2: no songs, and no title of its own.
StreamRule0 == [videoId |-> "v2", name |-> "", title |-> "", songs |-> <<>>]

\* Seamless neighbours, as the seamless-neighbours test sets them, and a third
\* song 50 ms after the second.
StreamSeamless ==
    [videoId |-> "v3", name |-> "Third", title |-> "Video 3",
     songs |-> <<Song("S3T1", 0, 10000), Song("S3T2", 10000, 20000),
                 Song("S3T3", 20050, 30000)>>]

\* A first song that starts late, and a gap of 51 ms: just too wide to be seamless.
StreamNear ==
    [videoId |-> "v4", name |-> "", title |-> "Video 4",
     songs |-> <<Song("S4T1", 2000, 10000), Song("S4T2", 10051, 20000)>>]

\* One stream of one song: every history entry the engine pushes is the same.
StreamOne ==
    [videoId |-> "v5", name |-> "", title |-> "Video 5",
     songs |-> <<Song("S5T1", 0, 10000)>>]

VideoIds == {"v1", "v2", "v3", "v4", "v5"}

MainSegments == {<<StreamGap, StreamRule0, StreamSeamless>>, <<StreamNear, StreamRule0>>}
DeepSegments == {<<StreamOne>>}

\* What getSettings() may return at init: nothing, a saved state, malformed
\* values, and values that parse but are out of range.
Stored(yap, shuffle, loop, v, id, last) ==
    [yapMode |-> yap, shuffleMode |-> shuffle, loopMode |-> loop, vIdx |-> v,
     videoId |-> id, lastTime |-> last]

MainSettings ==
    {Stored("", "", "", "", "", None),
     Stored("true", "true", "2", "1", "v3", Some(15000)),
     Stored("false", "true", "1", "2", "", Some(20020)),
     Stored("yes", "", "abc", "9", "zz", None),
     Stored("true", "false", "7", "-1", "", Some(-10000)),
     Stored("", "", "1abc", "2.9", "", None)}

DeepSettings == {Stored("", "", "", "", "", None)}

\* What getSessionData().history may hold at init.
RawEntry(v, r, tm) == [obj |-> TRUE, vIdx |-> v, rIdx |-> r, time |-> tm]
RawNull == [obj |-> FALSE, vIdx |-> None, rIdx |-> None, time |-> None]
Absent == [kind |-> "absent", items |-> <<>>]
Invalid == [kind |-> "invalid", items |-> <<>>]
NotArray == [kind |-> "notArray", items |-> <<>>]
Array(items) == [kind |-> "array", items |-> items]

MainSessions ==
    {Absent, Invalid, NotArray,
     Array(<<RawEntry(Some(0), Some(5), Some(20004))>>),
     Array(<<RawNull, RawEntry(None, Some(1), Some(0)), RawEntry(Some(0), None, None)>>),
     Array(<<RawEntry(Some(1), Some(5), Some(-3000)), RawEntry(Some(7), Some(0), None)>>)}

\* A session history of n entries, told apart by their times.
LongHistory(n) == Array([i \in 1..n |-> RawEntry(Some(0), Some(0), Some(i * 1000))])

DeepSessions == {LongHistory(HISTORY_LIMIT - 1), LongHistory(HISTORY_LIMIT + MaxOverflow)}

\* The times the handlers compare a timestamp against, for one song: the start
\* and end, the tick tolerance before and after, the early-advance lead and the
\* restart threshold.
CriticalTimes(song) ==
    {song.range[1] - TICK_TOLERANCE, song.range[1],
     song.range[1] + RESTART_THRESHOLD_SECONDS,
     song.range[2] - SEEK_EARLY, song.range[2], song.range[2] + TICK_TOLERANCE}

\* The times a handler is called with: every time the current stream makes
\* critical and the millisecond after it, so that every interval between two
\* critical times is entered.
Times(s) ==
    LET st == getCurrentStream(s)
        critical == {0, RESTART_THRESHOLD_SECONDS}
                       \cup (IF st = None THEN {}
                             ELSE UNION {CriticalTimes(st[1].songs[i]) :
                                            i \in 1..Len(st[1].songs)})
    IN  {c + d : c \in critical, d \in {0, 1}} \cap Nat

\* The durations the player reports for a Rule 0 stream.
ReportedDurations == {1234000}

---------------------------------------------------------------------------
(* The state machine. *)

InitWith(storedSettings, storedSessions) ==
    /\ phase = "new"
    /\ playlist = <<>>
    /\ vIdx = 0
    /\ rIdx = 0
    /\ loopMode = LOOP_NONE
    /\ yapMode = FALSE
    /\ shuffleMode = FALSE
    /\ history = <<>>
    /\ durations = [id \in VideoIds |-> None]
    /\ settings \in storedSettings
    /\ session \in storedSessions

\* The handler's result becomes the state.
Apply(r) ==
    /\ playlist' = r.s.playlist
    /\ vIdx' = r.s.vIdx
    /\ rIdx' = r.s.rIdx
    /\ loopMode' = r.s.loopMode
    /\ yapMode' = r.s.yapMode
    /\ shuffleMode' = r.s.shuffleMode
    /\ history' = r.s.history
    /\ durations' = r.s.durations
    /\ settings' = r.s.settings
    /\ session' = r.s.session
    /\ phase' = "ready"
    /\ UNCHANGED <<queueVars, listVars>>

\* A handler may not grow the history beyond depth entries: the bound of the model.
Commit(r, depth) ==
    /\ Len(r.s.history) <= Max(depth, Len(history))
    /\ Apply(r)

DoInit(segments) ==
    /\ phase = "new"
    /\ \E segmentData \in segments : Apply(init(Self, segmentData))

ToggleYap(depth) == phase = "ready" /\ Commit(toggleYap(Self), depth)

ToggleLoop(depth) == phase = "ready" /\ Commit(toggleLoop(Self), depth)

ToggleShuffle(depth) == phase = "ready" /\ Commit(toggleShuffle(Self), depth)

NextStream(depth) ==
    /\ phase = "ready"
    /\ \E draws \in Draws(Self) : Commit(nextStream(Self, draws), depth)

PrevStream(depth) ==
    /\ phase = "ready"
    /\ \E skipHistory \in BOOLEAN, draws \in Draws(Self) :
          Commit(prevStream(Self, skipHistory, draws), depth)

NextSong(depth) ==
    /\ phase = "ready"
    /\ \E t \in Times(Self), draws \in Draws(Self) : Commit(nextSong(Self, t, draws), depth)

PrevSong(depth) ==
    /\ phase = "ready"
    /\ \E t \in Times(Self), draws \in Draws(Self) : Commit(prevSong(Self, t, draws), depth)

CheckTick(depth) ==
    /\ phase = "ready"
    /\ \E t \in Times(Self), draws \in Draws(Self) : Commit(checkTick(Self, t, draws), depth)

OnVideoEnded(depth) ==
    /\ phase = "ready"
    /\ \E draws \in Draws(Self) : Commit(onVideoEnded(Self, draws), depth)

SyncToTime(depth) ==
    /\ phase = "ready"
    /\ \E t \in Times(Self) : Commit(syncToTime(Self, t), depth)

NormalizeResumeTime(depth) ==
    /\ phase = "ready"
    /\ \E t \in Times(Self) \cup {-10000} : Commit(normalizeResumeTime(Self, t), depth)

\* app.js onStateChange: the duration of the current Rule 0 stream, once.
SetDuration(depth) ==
    /\ phase = "ready"
    /\ getCurrentStream(Self) # None
    /\ ~HasSongs(getCurrentStream(Self)[1])
    /\ durations[getCurrentStream(Self)[1].videoId] = None
    /\ \E d \in ReportedDurations :
          Commit(setDuration(Self, getCurrentStream(Self)[1].videoId, d), depth)

\* The handlers of the engine, on its own state.
Engine(depth) ==
    \/ ToggleYap(depth)
    \/ ToggleLoop(depth)
    \/ ToggleShuffle(depth)
    \/ NextStream(depth)
    \/ PrevStream(depth)
    \/ NextSong(depth)
    \/ PrevSong(depth)
    \/ CheckTick(depth)
    \/ OnVideoEnded(depth)
    \/ SyncToTime(depth)
    \/ NormalizeResumeTime(depth)

\* No list is shown.
NoList ==
    /\ currentIndex = Some(0)
    /\ totalItems = Some(0)
    /\ nav = None

---------------------------------------------------------------------------
(* The message queue as a state machine. *)

\* The arrays a queue is built from: strings of one to three words, one of
\* them possibly twice, a blank string and a value that is not a string.
RawMessages ==
    {Msg("a", 1), Msg("b b", 2), Msg("c c c", 3), Msg("d", 1), Msg(" ", 0), NullMessage}

MessageLists == UNION {[1..n -> RawMessages] : n \in 0..MaxMessages}

\* { wpm, minSeconds }
QueueConfigs == {[wpm |-> 60, minSeconds |-> 1000], [wpm |-> 200, minSeconds |-> 3000]}

\* No message queue is built.
NoQueue ==
    /\ timings = <<>>
    /\ minSeconds = 0
    /\ queue = <<>>
    /\ lastMessage = None
    /\ results = <<>>
    /\ refills = {}

\* new MessageQueue(messages, { wpm, minSeconds }): the constructor refills.
InitQueue ==
    /\ InitWith({Stored("", "", "", "", "", None)}, {Absent})
    /\ \E messages \in MessageLists, cfg \in QueueConfigs :
          \E picks \in Picks(Len(buildTimingMap(messages, cfg.wpm, cfg.minSeconds))) :
              LET q == MessageQueue(messages, cfg.wpm, cfg.minSeconds, picks) IN
              /\ timings = q.timings
              /\ minSeconds = q.minSeconds
              /\ queue = q.queue
              /\ lastMessage = q.lastMessage
    /\ results = <<>>
    /\ refills = {1}
    /\ NoList

QueueNext ==
    /\ Len(results) < MaxResults
    /\ \E picks \in Picks(Len(timings)), swapIdx \in SwapPicks(Len(timings)) :
          LET r == next(TheQueue, picks, swapIdx) IN
          /\ timings' = r.s.timings
          /\ minSeconds' = r.s.minSeconds
          /\ queue' = r.s.queue
          /\ lastMessage' = r.s.lastMessage
          /\ results' = IF r.ret = None THEN results ELSE Append(results, r.ret[1].message)
          /\ refills' = IF r.refilled THEN refills \cup {Len(results) + 1} ELSE refills
    /\ UNCHANGED <<engineVars, listVars>>

NextQueue == QueueNext

\* A message queue over every array of up to MaxMessages values, asked for up
\* to MaxResults messages.
SpecQueue == InitQueue /\ [][NextQueue]_vars

---------------------------------------------------------------------------
(* The list navigation as a state machine. *)

\* event.key
EventKeys == {"ArrowDown", "ArrowUp", "Enter", "Home"}

\* The selected row a list starts with: inside the list, negative, beyond the
\* list, or not a number.
StartIndices == {Some(i) : i \in (-2)..(MaxItems + 1)} \cup {None}

\* The row counts: none, some, negative, or not an integer.
ItemCounts == {Some(n) : n \in (-1)..MaxItems} \cup {None}

InitList ==
    /\ InitWith({Stored("", "", "", "", "", None)}, {Absent})
    /\ NoQueue
    /\ currentIndex \in StartIndices
    /\ totalItems \in ItemCounts
    /\ nav = None

\* handleListKeyEvent with an onMove that stores the row it is given.
HandleListKeyEvent ==
    /\ \E key \in EventKeys :
          LET r == resolveListNavigation(key, currentIndex, totalItems) IN
          /\ nav' = Some(r)
          /\ currentIndex' = IF r.handled /\ r.action = NAV_ACTION_MOVE
                             THEN Some(r.nextIndex) ELSE currentIndex
    /\ UNCHANGED <<totalItems, engineVars, queueVars>>

NextList == HandleListKeyEvent

\* A list of up to MaxItems rows under the keys of the keyboard.
SpecList == InitList /\ [][NextList]_vars

---------------------------------------------------------------------------
(* The engine's specifications. *)

Next == DoInit(MainSegments) \/ Engine(MaxHistory) \/ SetDuration(MaxHistory)

Init == InitWith(MainSettings, MainSessions) /\ NoQueue /\ NoList

\* The engine on the main playlists, its history kept to MaxHistory entries.
Spec == Init /\ [][Next]_vars

InitDeep == InitWith(DeepSettings, DeepSessions) /\ NoQueue /\ NoList

\* No Rule 0 stream in the deep playlist: no duration is ever reported.
NextDeep == DoInit(DeepSegments) \/ Engine(HISTORY_LIMIT + MaxOverflow)

\* The engine on a one-stream playlist, its history as deep as the code lets it grow.
SpecDeep == InitDeep /\ [][NextDeep]_vars

---------------------------------------------------------------------------
(* Vocabulary of the properties. *)

Ready == phase = "ready"

\* The songs of the current stream: none for a Rule 0 stream or without a stream.
CurrentSongs ==
    LET st == getCurrentStream(Self) IN IF st = None THEN <<>> ELSE st[1].songs

NoPlayVideo(c) == \A i \in 1..Len(c) : c[i].fn # "playVideo"

\* Standard mode, on a stream with songs, rIdx naming one of them.
StandardOnSongs ==
    /\ Ready
    /\ ~yapMode
    /\ Len(CurrentSongs) > 0
    /\ rIdx >= 0
    /\ rIdx < Len(CurrentSongs)

\* The entry a push records in the current state.
NewestEntry ==
    [vIdx |-> vIdx, rIdx |-> rIdx,
     time |-> Some(_getHistoryPosition(Self, getCurrentStream(Self)))]

---------------------------------------------------------------------------
(* Properties. *)

\* C1: the history never holds more than 20 entries, in any state reached by the
\* handlers; a nextStream records the position it leaves as the newest entry, and
\* when the history is full the entry that goes is the oldest.
C1_HistoryCapped ==
    /\ Len(history) <= HISTORY_LIMIT
    /\ Ready =>
         \A draws \in Draws(Self) :
            LET after == nextStream(Self, draws).s.history IN
            /\ Len(after) <= HISTORY_LIMIT
            /\ Len(history) < HISTORY_LIMIT => after = Append(history, NewestEntry)
            /\ Len(history) = HISTORY_LIMIT => after = Append(Tail(history), NewestEntry)

\* A full history whose oldest restored entry has gone: two pushes on top of the
\* 19 restored entries.
C1_Witness ==
    /\ Ready
    /\ Len(history) = HISTORY_LIMIT
    /\ history[1].time = Some(2000)
    /\ history[HISTORY_LIMIT - 2].time = Some((HISTORY_LIMIT - 1) * 1000)
    /\ history[HISTORY_LIMIT - 1].time = Some(0)
    /\ history[HISTORY_LIMIT].time = Some(0)

\* C2: once initialised, vIdx is an index of the playlist.
C2_VIdxInRange == Ready => (vIdx >= 0 /\ vIdx < Len(playlist))

\* C3: once initialised, 0 <= rIdx < max(1, number of songs of the current
\* stream); so rIdx is 0 on a Rule 0 stream.
C3_RIdxInRange == Ready => (rIdx >= 0 /\ rIdx < Max(1, Len(CurrentSongs)))

\* The last of three songs is tracked, and a history entry is there to restore.
C3_Witness == Ready /\ Len(CurrentSongs) = 3 /\ rIdx = 2 /\ Len(history) > 0

\* C4: every step that turns shuffle off empties the history, and every step
\* that turns it on leaves the history as it was.
C4_ShuffleOffClearsHistory ==
    [][(Ready /\ shuffleMode' # shuffleMode)
          => history' = (IF shuffleMode THEN <<>> ELSE history)]_vars

\* Shuffle is on with a full history, and toggling it empties the history.
C4_Witness ==
    /\ Ready
    /\ shuffleMode
    /\ Len(history) = HISTORY_LIMIT
    /\ toggleShuffle(Self).s.history = <<>>
    /\ ~toggleShuffle(Self).s.shuffleMode

\* C5: with shuffle off, nextStream and then prevStream end on the stream they
\* started from, with or without skipHistory.
C5_RoundTrip ==
    (Ready /\ ~shuffleMode) =>
        \A skipHistory \in BOOLEAN :
            LET there == nextStream(Self, <<>>).s
                back == prevStream(there, skipHistory, <<>>).s
            IN  back.vIdx = vIdx

\* The round trip from the last of three streams, over the wrap to the first,
\* with an older entry for another stream below the one pushed.
C5_Witness ==
    /\ Ready
    /\ ~shuffleMode
    /\ Len(playlist) = 3
    /\ vIdx = 2
    /\ Len(history) > 0
    /\ history[Len(history)].vIdx # vIdx
    /\ nextStream(Self, <<>>).s.vIdx = 0
    /\ prevStream(nextStream(Self, <<>>).s, FALSE, <<>>).s.vIdx = 2

\* The times strictly between the end of song i and the start of song i + 1
\* (0-based), among the times the handlers are called with.
GapTimes(i) ==
    {t \in Times(Self) :
        t > At(CurrentSongs, i).range[2] /\ t < At(CurrentSongs, i + 1).range[1]}

\* C6: in standard mode, for a time strictly inside the gap after song i,
\* normalizeResumeTime returns the start of song i + 1 and leaves rIdx = i + 1.
C6_GapForward ==
    (Ready /\ ~yapMode) =>
        \A i \in 0..(Len(CurrentSongs) - 2) :
            \A t \in GapTimes(i) :
                LET r == normalizeResumeTime(Self, t) IN
                /\ r.ret = At(CurrentSongs, i + 1).range[1]
                /\ r.s.rIdx = i + 1

\* Song 0 is tracked and a time in the 10 s gap after it is normalised to the
\* start of song 1.
C6_Witness ==
    /\ Ready
    /\ ~yapMode
    /\ Len(CurrentSongs) = 2
    /\ rIdx = 0
    /\ 11001 \in GapTimes(0)
    /\ normalizeResumeTime(Self, 11001).ret = 20000
    /\ normalizeResumeTime(Self, 11001).s.rIdx = 1

\* C7: synchronising twice with the same time gives the same context twice and
\* the same rIdx after the second call as after the first, whatever rIdx was.
C7_SyncIdempotent ==
    Ready =>
        \A t \in Times(Self), r0 \in 0..3 :
            LET st == getCurrentStream(Self)
                first == _syncIndexToTime([Self EXCEPT !.rIdx = r0], t, st)
                second == _syncIndexToTime(first.s, t, st)
            IN  /\ second.ctx = first.ctx
                /\ second.s.rIdx = first.s.rIdx

\* Song 1 is tracked and a time in the gap before it re-anchors rIdx to song 0.
C7_Witness ==
    /\ Ready
    /\ Len(CurrentSongs) = 2
    /\ rIdx = 1
    /\ _syncIndexToTime(Self, 11000, getCurrentStream(Self)).ctx = "gap"
    /\ _syncIndexToTime(Self, 11000, getCurrentStream(Self)).s.rIdx = 0

\* checkTick(9.9) and then checkTick(10.5) call playVideo neither time.
QuietAcrossTenSeconds ==
    \A d1 \in Draws(Self) :
        LET first == checkTick(Self, 9900, d1) IN
        /\ NoPlayVideo(first.calls)
        /\ \A d2 \in Draws(first.s) : NoPlayVideo(checkTick(first.s, 10500, d2).calls)

\* C8 as stated: on the stream with songs [0,10) and [20,30), in standard mode
\* with rIdx = 0, checkTick(9.9) then checkTick(10.5) do not call playVideo.
C8_Original ==
    (StandardOnSongs /\ rIdx = 0 /\ CurrentSongs = StreamGap.songs) => QuietAcrossTenSeconds

\* C8 as amended: on a stream whose first two songs are the seamless neighbours
\* [0,10) and [10,20), in standard mode with rIdx = 0, checkTick(9.9) then
\* checkTick(10.5) do not call playVideo.
C8_SeamlessQuiet ==
    (/\ StandardOnSongs
     /\ rIdx = 0
     /\ Len(CurrentSongs) >= 2
     /\ At(CurrentSongs, 0).range = <<0, 10000>>
     /\ At(CurrentSongs, 1).range = <<10000, 20000>>) => QuietAcrossTenSeconds

\* The seamless stream in standard mode, song 0 tracked, no loop: the two ticks
\* leave both indices alone.
C8_Witness ==
    /\ StandardOnSongs
    /\ rIdx = 0
    /\ loopMode = LOOP_NONE
    /\ CurrentSongs = StreamSeamless.songs
    /\ checkTick(checkTick(Self, 9900, <<>>).s, 10500, <<>>).s.rIdx = 0
    /\ checkTick(checkTick(Self, 9900, <<>>).s, 10500, <<>>).s.vIdx = vIdx

\* The song after the tracked one starts within 0.05 s of the tracked song's end.
TrackedHasSeamlessNeighbour ==
    /\ StandardOnSongs
    /\ rIdx + 1 < Len(CurrentSongs)
    /\ At(CurrentSongs, rIdx + 1).range[1] - At(CurrentSongs, rIdx).range[2] <= 50
    /\ At(CurrentSongs, rIdx + 1).range[1] - At(CurrentSongs, rIdx).range[2] >= -50

\* C9 as stated: with a seamless neighbour after the tracked song, no tick calls
\* playVideo or seekTo, and a tick more than 1 s past the tracked song's end
\* leaves rIdx on the following song.
C9_Original ==
    TrackedHasSeamlessNeighbour =>
        \A t \in Times(Self), d \in Draws(Self) :
            LET r == checkTick(Self, t, d) IN
            /\ r.calls = <<>>
            /\ t > At(CurrentSongs, rIdx).range[2] + 1000 => r.s.rIdx = rIdx + 1

\* C9 as amended: with a seamless neighbour after the tracked song, no tick calls
\* playVideo or seekTo or changes vIdx, and a tick whose time is more than 1 s
\* past the tracked song's end and inside the following song leaves rIdx on the
\* following song.
C9_SeamlessNoReload ==
    TrackedHasSeamlessNeighbour =>
        \A t \in Times(Self), d \in Draws(Self) :
            LET r == checkTick(Self, t, d) IN
            /\ r.calls = <<>>
            /\ r.s.vIdx = vIdx
            /\ (t > At(CurrentSongs, rIdx).range[2] + 1000
                  /\ InRange(t, At(CurrentSongs, rIdx + 1))) => r.s.rIdx = rIdx + 1

\* Song 1 of the seamless stream is tracked, song 2 starts 50 ms after it ends;
\* a tick at the early-advance lead is quiet and a tick 1.001 s past the end
\* moves rIdx to song 2.
C9_Witness ==
    /\ TrackedHasSeamlessNeighbour
    /\ rIdx = 1
    /\ At(CurrentSongs, 2).range[1] - At(CurrentSongs, 1).range[2] = 50
    /\ 19800 \in Times(Self)
    /\ checkTick(Self, 19800, <<>>).calls = <<>>
    /\ 21001 \in Times(Self)
    /\ checkTick(Self, 21001, <<>>).s.rIdx = 2

\* t is more than 1 s outside the tracked song's range and inside no song.
FarOutsideEverySong(t) ==
    /\ \/ t < At(CurrentSongs, rIdx).range[1] - 1000
       \/ t > At(CurrentSongs, rIdx).range[2] + 1000
    /\ \A i \in 1..Len(CurrentSongs) : ~InRange(t, CurrentSongs[i])

\* C10: in standard mode a tick more than 1 s outside the tracked song's range
\* and inside no song changes nothing of the engine and makes no callback.
C10_GapTickIsQuiet ==
    StandardOnSongs =>
        \A t \in Times(Self), d \in Draws(Self) :
            FarOutsideEverySong(t) =>
                LET r == checkTick(Self, t, d) IN
                /\ r.s.vIdx = vIdx
                /\ r.s.rIdx = rIdx
                /\ r.s.history = history
                /\ r.calls = <<>>
                /\ ~r.threw

\* Song 0 of the stream with the 10 s gap is tracked and the tick comes 1.001 s
\* after its end, in the gap.
C10_Witness ==
    /\ StandardOnSongs
    /\ rIdx = 0
    /\ CurrentSongs = StreamGap.songs
    /\ loopMode = LOOP_NONE
    /\ 11001 \in Times(Self)
    /\ FarOutsideEverySong(11001)
    /\ checkTick(Self, 11001, <<>>).s = Self

\* C11: with loopMode = Stream, on a stream with songs and rIdx at its last song,
\* advanceAuto leaves vIdx as it was, sets rIdx to 0 and pushes no history entry.
C11_LoopStreamWraps ==
    (/\ Ready
     /\ loopMode = LOOP_STREAM
     /\ Len(CurrentSongs) > 0
     /\ rIdx = Len(CurrentSongs) - 1) =>
        \A d \in Draws(Self) :
            LET r == advanceAuto(Self, d) IN
            /\ ~r.threw
            /\ r.s.vIdx = vIdx
            /\ r.s.rIdx = 0
            /\ r.s.history = history

\* Loop Stream at the last of several songs, with a history that a push would change.
C11_Witness ==
    /\ Ready
    /\ loopMode = LOOP_STREAM
    /\ Len(CurrentSongs) >= 2
    /\ rIdx = Len(CurrentSongs) - 1
    /\ Len(history) > 0
    /\ advanceAuto(Self, <<>>).s.rIdx = 0
    /\ advanceAuto(Self, <<>>).calls = <<PlayVideoCall>>

\* C12: with shuffle on and a playlist of one stream, nextStream, and prevStream
\* on an empty history, return without a single random draw and leave vIdx = 0.
C12_SingleStreamShuffle ==
    (Ready /\ shuffleMode /\ Len(playlist) = 1) =>
        /\ Draws(Self) = {<<>>}
        /\ nextStream(Self, <<>>).s.vIdx = 0
        /\ history = <<>> =>
              \A skipHistory \in BOOLEAN : prevStream(Self, skipHistory, <<>>).s.vIdx = 0

\* Shuffle on, one stream, the history emptied: both calls end on stream 0.
C12_Witness ==
    /\ Ready
    /\ shuffleMode
    /\ Len(playlist) = 1
    /\ history = <<>>
    /\ nextStream(Self, <<>>).s.vIdx = 0
    /\ Len(nextStream(Self, <<>>).s.history) = 1
    /\ prevStream(Self, FALSE, <<>>).s.vIdx = 0

\* The durations the player may report: finite and positive.
PositiveDurations == {1, 1234000}

\* C13: on a Rule 0 stream getCurrentSong().range is [0, 0] while no duration is
\* cached for its videoId, and [0, d] right after setDuration(videoId, d), for
\* every positive d, with no other call between.
C13_Rule0Duration ==
    (Ready /\ getCurrentStream(Self) # None /\ CurrentSongs = <<>>) =>
        LET id == getCurrentStream(Self)[1].videoId IN
        /\ durations[id] = None => getCurrentSong(Self)[1].range = <<0, 0>>
        /\ durations[id] # None => getCurrentSong(Self)[1].range = <<0, durations[id][1]>>
        /\ \A d \in PositiveDurations :
              getCurrentSong(setDuration(Self, id, d).s)[1].range = <<0, d>>

\* The duration of the current Rule 0 stream has been reported and is read back.
C13_Witness ==
    /\ Ready
    /\ getCurrentStream(Self) # None
    /\ CurrentSongs = <<>>
    /\ durations[getCurrentStream(Self)[1].videoId] = Some(1234000)
    /\ getCurrentSong(Self)[1].range = <<0, 1234000>>

\* C14: with shuffle on, prevStream({skipHistory: true}) moves to vIdx - 1, from 0
\* to the last index, sets rIdx to 0 and leaves the history as it was.
C14_SkipHistory ==
    (Ready /\ shuffleMode) =>
        \A d \in Draws(Self) :
            LET r == prevStream(Self, TRUE, d).s IN
            /\ r.vIdx = (IF vIdx = 0 THEN Len(playlist) - 1 ELSE vIdx - 1)
            /\ r.rIdx = 0
            /\ r.history = history

\* Shuffle on at stream 0 of three, the newest history entry for another stream
\* than the last: the call wraps to the last stream past that entry.
C14_Witness ==
    /\ Ready
    /\ shuffleMode
    /\ Len(playlist) = 3
    /\ vIdx = 0
    /\ Len(history) > 0
    /\ history[Len(history)].vIdx # 2
    /\ prevStream(Self, TRUE, <<>>).s.vIdx = 2
    /\ prevStream(Self, TRUE, <<>>).s.history = history

\* The songs of stream v of the playlist: none for a Rule 0 stream or when v is
\* no index of the playlist.
SongsOf(v) == IF v >= 0 /\ v < Len(playlist) THEN At(playlist, v).songs ELSE <<>>

\* The start of the first song of stream v, 0 without songs.
DefaultStartOf(v) == IF SongsOf(v) = <<>> THEN 0 ELSE SongsOf(v)[1].range[1]

\* A time rounded to hundredths of a second, as the settings hold it.
Hundredths(t) == ((t + 5) \div 10) * 10

\* prevStream took the newest entry off the history and restored vIdx and the
\* clamped rIdx from it.
PoppedNewest(r) ==
    LET prev == history[Len(history)] IN
    /\ r.history = SubSeq(history, 1, Len(history) - 1)
    /\ r.vIdx = prev.vIdx
    /\ r.rIdx = Min(Max(prev.rIdx, 0), Max(1, Len(SongsOf(prev.vIdx))) - 1)

\* C15 as stated: on a non-empty history (skipHistory with shuffle on apart)
\* prevStream pops the newest entry, restores vIdx and the clamped rIdx from it,
\* and persists lastTime as the entry's saved time, or as the restored stream's
\* default start when the entry has no saved time.
C15_Original ==
    (Ready /\ Len(history) > 0) =>
        \A skipHistory \in BOOLEAN, d \in Draws(Self) :
            ~(skipHistory /\ shuffleMode) =>
                LET prev == history[Len(history)]
                    r == prevStream(Self, skipHistory, d).s
                IN  /\ PoppedNewest(r)
                    /\ r.settings.lastTime =
                          (IF prev.time # None THEN prev.time
                           ELSE Some(DefaultStartOf(prev.vIdx)))

\* C15 as amended: on a non-empty history (skipHistory with shuffle on apart)
\* prevStream pops the newest entry, restores vIdx and the clamped rIdx from it,
\* and persists lastTime, rounded to hundredths of a second, as the entry's saved
\* time when that is a number not below 0, and as the restored stream's default
\* start otherwise.
C15_PopRestores ==
    (Ready /\ Len(history) > 0) =>
        \A skipHistory \in BOOLEAN, d \in Draws(Self) :
            ~(skipHistory /\ shuffleMode) =>
                LET prev == history[Len(history)]
                    r == prevStream(Self, skipHistory, d).s
                IN  /\ PoppedNewest(r)
                    /\ r.settings.lastTime =
                          Some(Hundredths(IF prev.time # None /\ prev.time[1] >= 0
                                          THEN prev.time[1]
                                          ELSE DefaultStartOf(prev.vIdx)))

\* The newest entry names stream 0, a song index past its songs and a time of
\* 20.004 s: the call restores the last song and persists 20.00.
C15_Witness ==
    /\ Ready
    /\ Len(history) > 0
    /\ history[Len(history)] = [vIdx |-> 0, rIdx |-> 5, time |-> Some(20004)]
    /\ vIdx # 0
    /\ prevStream(Self, FALSE, <<>>).s.vIdx = 0
    /\ prevStream(Self, FALSE, <<>>).s.rIdx = Len(SongsOf(0)) - 1
    /\ prevStream(Self, FALSE, <<>>).s.settings.lastTime = Some(20000)

\* C16: on an empty history prevStream() with shuffle on picks the stream that
\* nextStream picks on the same draws, an index of the playlist other than vIdx
\* when there are two streams or more; with shuffle off it moves to vIdx - 1, from
\* 0 to the last index; either way rIdx is 0 and the history stays empty.
C16_EmptyHistory ==
    (Ready /\ history = <<>>) =>
        \A d \in Draws(Self) :
            LET r == prevStream(Self, FALSE, d).s IN
            /\ r.rIdx = 0
            /\ r.history = <<>>
            /\ shuffleMode =>
                  /\ r.vIdx = nextStream(Self, d).s.vIdx
                  /\ Len(playlist) >= 2 =>
                        (r.vIdx # vIdx /\ r.vIdx >= 0 /\ r.vIdx < Len(playlist))
            /\ ~shuffleMode =>
                  r.vIdx = (IF vIdx = 0 THEN Len(playlist) - 1 ELSE vIdx - 1)

\* Shuffle on at stream 1 of three with an empty history; the draws 1, 2 send
\* the call forward to stream 2, where the literal previous stream is 0.
C16_Witness ==
    /\ Ready
    /\ history = <<>>
    /\ shuffleMode
    /\ Len(playlist) = 3
    /\ vIdx = 1
    /\ rIdx = 0
    /\ <<1, 2>> \in Draws(Self)
    /\ prevStream(Self, FALSE, <<1, 2>>).s.vIdx = 2

\* C17: with shuffle on and two streams or more, every nextStream ends with vIdx
\* another than before the call, however often the draw repeats the current index.
C17_ShuffleMoves ==
    (Ready /\ shuffleMode /\ Len(playlist) >= 2) =>
        \A d \in Draws(Self) : nextStream(Self, d).s.vIdx # vIdx

\* Shuffle on, three streams, and a pick whose first draw is the current index.
C17_Witness ==
    /\ Ready
    /\ shuffleMode
    /\ Len(playlist) = 3
    /\ vIdx = 2
    /\ <<2, 0>> \in Draws(Self)
    /\ nextStream(Self, <<2, 0>>).s.vIdx = 0

\* C18: with shuffle off nextStream pushes one entry holding the vIdx and rIdx of
\* before the call, sets vIdx to (vIdx + 1) mod playlist.length and rIdx to 0, and
\* persists lastTime as the default start of the new stream.
C18_NextStreamSequential ==
    (Ready /\ ~shuffleMode) =>
        LET r == nextStream(Self, <<>>).s
            newest == r.history[Len(r.history)]
        IN  /\ Len(r.history) = Min(Len(history) + 1, HISTORY_LIMIT)
            /\ newest.vIdx = vIdx
            /\ newest.rIdx = rIdx
            /\ r.vIdx = (vIdx + 1) % Len(playlist)
            /\ r.rIdx = 0
            /\ r.settings.lastTime = Some(Hundredths(DefaultStartOf(r.vIdx)))

\* The modes toggleLoop cycles through, and the successor of each.
LoopSuccessor(m) ==
    IF m = LOOP_NONE THEN LOOP_TRACK ELSE IF m = LOOP_TRACK THEN LOOP_STREAM ELSE LOOP_NONE

\* C19: in every reachable state toggleLoop moves loopMode to its successor in
\* None -> Track -> Stream -> None, and three calls bring it back.
C19_LoopCycle ==
    Ready =>
        LET once == toggleLoop(Self).s
            twice == toggleLoop(once).s
            thrice == toggleLoop(twice).s
        IN  /\ loopMode \in {LOOP_NONE, LOOP_TRACK, LOOP_STREAM}
            /\ once.loopMode = LoopSuccessor(loopMode)
            /\ thrice.loopMode = loopMode

\* The flags the settings hold, read as init reads them, are those of the engine.
FlagsSaved(s) ==
    /\ (s.settings.yapMode = "true") = s.yapMode
    /\ (s.settings.shuffleMode = "true") = s.shuffleMode
    /\ parseInt(s.settings.loopMode) = Some(s.loopMode)

\* C20: at the end of every toggleYap, toggleLoop and toggleShuffle the settings
\* saved hold the yapMode, loopMode and shuffleMode the engine has.
C20_TogglesPersist ==
    Ready =>
        /\ FlagsSaved(toggleYap(Self).s)
        /\ FlagsSaved(toggleLoop(Self).s)
        /\ FlagsSaved(toggleShuffle(Self).s)

\* The flags restored by init are not the defaults, every toggle has been saved
\* at least once since, and each next toggle is saved again.
C20_Witness ==
    /\ Ready
    /\ yapMode
    /\ shuffleMode
    /\ loopMode = LOOP_STREAM
    /\ FlagsSaved(Self)
    /\ settings.lastTime = Some(0)
    /\ toggleLoop(Self).s.settings.loopMode = "0"
    /\ toggleYap(Self).s.settings.yapMode = "false"
    /\ toggleShuffle(Self).s.settings.shuffleMode = "false"

\* The keys of a saveSettings payload.
SettingsKeys == {"yapMode", "shuffleMode", "loopMode", "vIdx", "videoId", "lastTime"}

C22_InitTolerant ==
    phase = "new" =>
        \A segmentData \in MainSegments :
            LET r == init(Self, segmentData) IN
            /\ ~r.threw
            /\ session.kind # "array" => r.s.history = <<>>

\* str is a decimal integer numeral.
IsNumeral(str) == \E i \in 1..Len(Numerals) : Numerals[i] = str

\* No stream of segmentData has the saved videoId.
UnknownVideoId(segmentData) ==
    \A i \in 1..Len(segmentData) : segmentData[i].videoId # settings.videoId

\* C23 as stated: with malformed settings init does not throw; vIdx is 0 when
\* the saved videoId is unknown and the saved index is no numeral or out of range;
\* loopMode is None when the saved loop mode is no numeral; yap and shuffle are
\* off when not saved as on.
C23_Original ==
    phase = "new" =>
        \A segmentData \in MainSegments :
            LET r == init(Self, segmentData)
                badIndex == \/ ~IsNumeral(settings.vIdx)
                            \/ parseInt(settings.vIdx)[1] < 0
                            \/ parseInt(settings.vIdx)[1] >= Len(segmentData)
            IN  /\ ~r.threw
                /\ (UnknownVideoId(segmentData) /\ badIndex) => r.s.vIdx = 0
                /\ ~IsNumeral(settings.loopMode) => r.s.loopMode = LOOP_NONE
                /\ settings.yapMode # "true" => ~r.s.yapMode
                /\ settings.shuffleMode # "true" => ~r.s.shuffleMode

\* C23 as amended: init throws over no setting, only over session data that are
\* no array; vIdx is 0 when the saved videoId is unknown and parseInt reads the
\* saved index as NaN or out of range; loopMode is None when parseInt reads the
\* saved loop mode as NaN, and the integer parseInt reads otherwise; yap and
\* shuffle are off when not saved as on.
C23_SettingsFallBack ==
    phase = "new" =>
        \A segmentData \in MainSegments :
            LET r == init(Self, segmentData)
                savedIndex == parseInt(settings.vIdx)
                savedLoop == parseInt(settings.loopMode)
                badIndex == \/ savedIndex = None
                            \/ savedIndex[1] < 0
                            \/ savedIndex[1] >= Len(segmentData)
            IN  /\ r.threw => session.kind = "notArray"
                /\ (UnknownVideoId(segmentData) /\ badIndex) => r.s.vIdx = 0
                /\ savedLoop = None => r.s.loopMode = LOOP_NONE
                /\ savedLoop # None => r.s.loopMode = savedLoop[1]
                /\ settings.yapMode # "true" => ~r.s.yapMode
                /\ settings.shuffleMode # "true" => ~r.s.shuffleMode

\* init has run on the settings yes / abc / 9 / zz: every value fell back.
C23_Witness ==
    /\ Ready
    /\ settings = Stored("yes", "", "abc", "9", "zz", None)
    /\ vIdx = 0
    /\ loopMode = LOOP_NONE
    /\ ~yapMode
    /\ ~shuffleMode

\* C24: init on an empty playlist reports a failure to its caller, and never
\* returns normally with a playlist of no stream.
C24_EmptyPlaylistReported ==
    phase = "new" =>
        LET r == init(Self, <<>>) IN r.threw \/ Len(r.s.playlist) > 0

\* C25: after init vIdx is the index of the stream with the saved videoId when
\* there is one, whatever the saved index; else the saved index when it is an
\* index of the playlist; else 0.
C25_VideoIdFirst ==
    phase = "new" =>
        \A segmentData \in MainSegments :
            LET r == init(Self, segmentData)
                named == {i \in 1..Len(segmentData) :
                             segmentData[i].videoId = settings.videoId}
                savedIndex == parseInt(settings.vIdx)
            IN  r.s.vIdx =
                   IF named # {} THEN (CHOOSE i \in named : TRUE) - 1
                   ELSE IF savedIndex # None /\ savedIndex[1] >= 0
                           /\ savedIndex[1] < Len(segmentData)
                        THEN savedIndex[1]
                   ELSE 0

\* init has run on a saved videoId v3, the third of three streams, and a saved
\* index 1: the videoId decided.
C25_Witness ==
    /\ Ready
    /\ settings.videoId = "v3"
    /\ settings.vIdx = "1"
    /\ settings.lastTime = Some(15000)
    /\ Len(playlist) = 3
    /\ At(playlist, 2).videoId = "v3"
    /\ vIdx = 2

\* No song follows the tracked one within 0.05 s of its end.
NoSeamlessNeighbour ==
    \/ rIdx + 1 >= Len(CurrentSongs)
    \/ At(CurrentSongs, rIdx + 1).range[1] - At(CurrentSongs, rIdx).range[2] > 50
    \/ At(CurrentSongs, rIdx + 1).range[1] - At(CurrentSongs, rIdx).range[2] < -50

\* C26: with loopMode = Track and a current song, advanceAuto, from onVideoEnded
\* or from a standard-mode tick at the end of the tracked song, leaves vIdx, rIdx
\* and history as they were, calls seekTo with the start of the current song and
\* does not call playVideo.
C26_LoopTrackSeeks ==
    (Ready /\ loopMode = LOOP_TRACK /\ getCurrentSong(Self) # None) =>
        LET start == getCurrentSong(Self)[1].range[1] IN
        /\ \A d \in Draws(Self) :
              LET r == onVideoEnded(Self, d) IN
              /\ ~r.threw
              /\ r.calls = <<SeekToCall(start)>>
              /\ r.s.vIdx = vIdx
              /\ r.s.rIdx = rIdx
              /\ r.s.history = history
        /\ StandardOnSongs =>
              \A t \in Times(Self), d \in Draws(Self) :
                 LET r == checkTick(Self, t, d)
                     end == At(CurrentSongs, rIdx).range[2]
                 IN  /\ NoPlayVideo(r.calls)
                     /\ r.s.vIdx = vIdx
                     /\ r.s.history = history
                     /\ r.calls # <<>> => (r.calls = <<SeekToCall(start)>> /\ r.s.rIdx = rIdx)
                     /\ (NoSeamlessNeighbour /\ t >= end - 200 /\ t <= end + 1000)
                           => r.calls = <<SeekToCall(start)>>

\* Loop Track on the last song of the stream with the gap: the tick 0.2 s before
\* its end seeks back to its start at 20 s.
C26_Witness ==
    /\ StandardOnSongs
    /\ loopMode = LOOP_TRACK
    /\ CurrentSongs = StreamGap.songs
    /\ rIdx = 1
    /\ 29800 \in Times(Self)
    /\ checkTick(Self, 29800, <<>>).calls = <<SeekToCall(20000)>>
    /\ checkTick(Self, 29800, <<>>).s = Self
    /\ onVideoEnded(Self, <<>>).calls = <<SeekToCall(20000)>>

\* C27: with yapMode on and a current stream, the status text ends with
\* " with Yapping" at every time.
C27_YapSuffix ==
    (Ready /\ yapMode /\ getCurrentStream(Self) # None) =>
        \A t \in Times(Self) :
            LET text == getStatusText(Self, t) IN
            Len(text) > 0 /\ text[Len(text)] = " with Yapping"

\* Yap mode on a stream with songs.
YapOnSongs == Ready /\ yapMode /\ Len(CurrentSongs) > 0

\* The end of the last song of the current stream.
LastSongEnd == CurrentSongs[Len(CurrentSongs)].range[2]

\* The song a time before the last song's end belongs to (0-based): the song
\* holding it, song 0 before the first song, the song before the gap holding it.
SyncedIndex(t) ==
    IF t < CurrentSongs[1].range[1] THEN 0
    ELSE (CHOOSE k \in 1..Len(CurrentSongs) :
              /\ t >= CurrentSongs[k].range[1]
              /\ \/ t < CurrentSongs[k].range[2]
                 \/ k < Len(CurrentSongs) /\ t < CurrentSongs[k + 1].range[1]) - 1

\* C28: in yap mode on a stream with songs, checkTick(t) changes vIdx only when
\* t is within 0.2 s of, or past, the end of the last song; for every smaller t
\* it changes nothing but rIdx, which it sets to the song of t, and it calls
\* neither playVideo nor seekTo.
C28_YapTick ==
    YapOnSongs =>
        \A t \in Times(Self), d \in Draws(Self) :
            LET r == checkTick(Self, t, d) IN
            /\ ~r.threw
            /\ (r.s.vIdx # vIdx => t >= LastSongEnd - SEEK_EARLY)
            /\ (t < LastSongEnd - SEEK_EARLY =>
                    /\ r.calls = <<>>
                    /\ r.s = [Self EXCEPT !.rIdx = SyncedIndex(t)])

\* Yap mode, several streams: a tick early in the stream moves rIdx only, and a
\* tick 0.2 s before the last song's end changes vIdx.
C28_Witness ==
    /\ YapOnSongs
    /\ \E t \in Times(Self), d \in Draws(Self) :
           /\ t < LastSongEnd - SEEK_EARLY
           /\ checkTick(Self, t, d).s.rIdx # rIdx
           /\ checkTick(Self, t, d).s.vIdx = vIdx
    /\ \E d \in Draws(Self) :
           /\ LastSongEnd - SEEK_EARLY \in Times(Self)
           /\ checkTick(Self, LastSongEnd - SEEK_EARLY, d).s.vIdx # vIdx

\* The times before the first song of the current stream, among the times the
\* handlers are called with.
BeforeTimes == {t \in Times(Self) : t < CurrentSongs[1].range[1]}

\* The state prevStream() leaves, ending on the last song of the stream it
\* lands on when that stream has songs.
PreviousStreamEnd(d) ==
    LET s2 == prevStreamState(Self, FALSE, d)
        prev == getCurrentStream(s2)
    IN  IF prev # None /\ HasSongs(prev[1])
        THEN [s2 EXCEPT !.rIdx = Len(prev[1].songs) - 1]
        ELSE s2

\* C29 (amended): before the first song of a stream with songs, nextSong leaves
\* vIdx and history unchanged and rIdx = 0; prevSong moves to the previous
\* stream, as prevStream does, under Loop None and Loop Track, and under Loop
\* Stream stays on the stream and wraps to its last song.
C29_BeforeFirstSong ==
    (Ready /\ Len(CurrentSongs) > 0) =>
        \A t \in BeforeTimes, d \in Draws(Self) :
            LET n == nextSong(Self, t, d)
                p == prevSong(Self, t, d)
            IN  /\ ~n.threw /\ ~p.threw
                /\ n.s = [Self EXCEPT !.rIdx = 0]
                /\ IF loopMode = LOOP_STREAM
                   THEN p.s = [Self EXCEPT !.rIdx = Len(CurrentSongs) - 1]
                   ELSE p.s = PreviousStreamEnd(d)

\* Loop Stream, before the first song with rIdx on song 1: nextSong returns to
\* song 0 and prevSong stays on the stream where prevStream would leave it.
C29_Witness ==
    /\ Ready /\ Len(CurrentSongs) > 1
    /\ loopMode = LOOP_STREAM
    /\ rIdx = 1
    /\ \E t \in BeforeTimes, d \in Draws(Self) :
           /\ nextSong(Self, t, d).s.rIdx = 0
           /\ prevSong(Self, t, d).s.vIdx = vIdx
           /\ PreviousStreamEnd(d).vIdx # vIdx

\* C29 as stated: before the first song nextSong leaves vIdx unchanged and
\* rIdx = 0, and prevSong moves to the previous stream for every loop mode.
C29_Original ==
    (Ready /\ Len(CurrentSongs) > 0) =>
        \A t \in BeforeTimes, d \in Draws(Self) :
            LET n == nextSong(Self, t, d)
                p == prevSong(Self, t, d)
            IN  /\ n.s.vIdx = vIdx /\ n.s.rIdx = 0
                /\ p.s.vIdx = PreviousStreamEnd(d).vIdx
                /\ p.s.history = PreviousStreamEnd(d).history

\* The times from the end of song i up to the start of song i + 1 (0-based),
\* among the times the handlers are called with.
InGapAfter(i) ==
    {t \in Times(Self) :
        t >= At(CurrentSongs, i).range[2] /\ t < At(CurrentSongs, i + 1).range[1]}

\* C30: for a time in the gap between song i and song i + 1, nextSong ends with
\* rIdx = i + 1 and prevSong with rIdx = i, and neither changes anything else
\* (vIdx and history stay), whatever rIdx was and in every mode.
C30_GapSnap ==
    (Ready /\ Len(CurrentSongs) > 0) =>
        \A i \in 0..(Len(CurrentSongs) - 2) :
            \A t \in InGapAfter(i), d \in Draws(Self) :
                LET n == nextSong(Self, t, d)
                    p == prevSong(Self, t, d)
                IN  /\ ~n.threw /\ ~p.threw
                    /\ n.s = [Self EXCEPT !.rIdx = i + 1]
                    /\ p.s = [Self EXCEPT !.rIdx = i]

\* A time in the gap before the last song with rIdx already on that song:
\* nextSong stays on it and prevSong goes back to the song before the gap.
C30_Witness ==
    /\ Ready /\ Len(CurrentSongs) > 1
    /\ rIdx = Len(CurrentSongs) - 1
    /\ \E t \in InGapAfter(rIdx - 1), d \in Draws(Self) :
           /\ nextSong(Self, t, d).s.rIdx = rIdx
           /\ nextSong(Self, t, d).s.vIdx = vIdx
           /\ prevSong(Self, t, d).s.rIdx = rIdx - 1

\* The times inside song i (0-based) of the current stream, among the times
\* the handlers are called with.
InsideTimes(i) ==
    {t \in Times(Self) :
        t >= At(CurrentSongs, i).range[1] /\ t < At(CurrentSongs, i).range[2]}

\* C31: for a time inside song i, prevSong restarts song i (a seek to its
\* start, rIdx = i, nothing else changed) when the time is more than 5 s past
\* the start; otherwise it moves to song i - 1 when i > 0; otherwise it wraps to
\* the last song under Loop Stream, or else moves to the previous stream with
\* rIdx on that stream's last song.
C31_PrevInsideSong ==
    (Ready /\ Len(CurrentSongs) > 0) =>
        \A i \in 0..(Len(CurrentSongs) - 1) :
            \A t \in InsideTimes(i), d \in Draws(Self) :
                LET p == prevSong(Self, t, d)
                    start == At(CurrentSongs, i).range[1]
                IN  /\ ~p.threw
                    /\ IF t - start > RESTART_THRESHOLD_SECONDS
                       THEN /\ p.s = [Self EXCEPT !.rIdx = i]
                            /\ p.ret = SeekAction(start)
                       ELSE IF i > 0 THEN p.s = [Self EXCEPT !.rIdx = i - 1]
                       ELSE IF loopMode = LOOP_STREAM
                       THEN p.s = [Self EXCEPT !.rIdx = Len(CurrentSongs) - 1]
                       ELSE p.s = PreviousStreamEnd(d)

\* On the first song without Loop Stream: exactly 5 s past its start prevSong
\* leaves for another stream, and 1 ms later it restarts the song.
C31_Witness ==
    /\ Ready /\ Len(CurrentSongs) > 1
    /\ loopMode # LOOP_STREAM
    /\ LET start == CurrentSongs[1].range[1] IN
       \E d \in Draws(Self) :
           /\ start + RESTART_THRESHOLD_SECONDS + 1 \in InsideTimes(0)
           /\ prevSong(Self, start + RESTART_THRESHOLD_SECONDS, d).s.vIdx # vIdx
           /\ prevSong(Self, start + RESTART_THRESHOLD_SECONDS + 1, d).s.vIdx = vIdx
           /\ prevSong(Self, start + RESTART_THRESHOLD_SECONDS + 1, d).ret = SeekAction(start)

\* The current stream is a Rule 0 stream.
OnRule0 == Ready /\ getCurrentStream(Self) # None /\ Len(CurrentSongs) = 0

\* C32 (amended): on a Rule 0 stream prevSong restarts the current position (a
\* seek to the stream's start, nothing changed) when the time is more than 5 s
\* past the start; otherwise it seeks to the start under Loop Stream, and moves
\* to the previous stream under Loop None and Loop Track.
C32_PrevRule0 ==
    OnRule0 =>
        \A t \in Times(Self), d \in Draws(Self) :
            LET p == prevSong(Self, t, d)
                start == getStreamDefaultStart(getCurrentStream(Self))
            IN  /\ ~p.threw
                /\ IF t - start > RESTART_THRESHOLD_SECONDS \/ loopMode = LOOP_STREAM
                   THEN p.s = Self /\ p.ret = SeekAction(start)
                   ELSE p.s = PreviousStreamEnd(d) /\ p.ret = LoadAction

\* A Rule 0 stream without Loop Stream: 1 ms in, prevSong leaves the stream, and
\* 5.001 s in it seeks back to the start.
C32_Witness ==
    /\ OnRule0
    /\ loopMode = LOOP_NONE
    /\ LET start == getStreamDefaultStart(getCurrentStream(Self)) IN
       \E d \in Draws(Self) :
           /\ {start + 1, start + RESTART_THRESHOLD_SECONDS + 1} \subseteq Times(Self)
           /\ prevSong(Self, start + 1, d).s.vIdx # vIdx
           /\ prevSong(Self, start + RESTART_THRESHOLD_SECONDS + 1, d).ret = SeekAction(start)

\* C32 as stated: on a Rule 0 stream prevSong restarts the current position when
\* the time is less than 5 s past the start, and otherwise jumps to the previous
\* stream.
C32_Original ==
    OnRule0 =>
        \A t \in Times(Self), d \in Draws(Self) :
            LET p == prevSong(Self, t, d)
                start == getStreamDefaultStart(getCurrentStream(Self))
            IN  IF t - start < RESTART_THRESHOLD_SECONDS
                THEN p.s.vIdx = vIdx /\ p.ret = SeekAction(start)
                ELSE p.s.vIdx = PreviousStreamEnd(d).vIdx
                     /\ p.s.history = PreviousStreamEnd(d).history

\* C33: whenever nextSong or prevSong ends on a song of the stream it started
\* on, the returned action is a seek to that song's start in yap mode and a
\* load in standard mode, in every position context and loop mode.
C33_ActionByMode ==
    (Ready /\ Len(CurrentSongs) > 0) =>
        \A t \in Times(Self), d \in Draws(Self) :
            \A r \in {nextSong(Self, t, d), prevSong(Self, t, d)} :
                (~r.threw /\ r.s.vIdx = vIdx) =>
                    IF yapMode
                    THEN r.ret = SeekAction(At(CurrentSongs, r.s.rIdx).range[1])
                    ELSE r.ret.type = "load"

\* C34: while loopMode is Stream, no checkTick, onVideoEnded or nextSong call
\* changes vIdx or the history, in yap mode and standard mode, on Rule 0 streams
\* and on streams with songs. The three calls leave loopMode alone, so no
\* sequence of them does once no single call does.
C34_LoopStreamStays ==
    (Ready /\ loopMode = LOOP_STREAM) =>
        \A t \in Times(Self), d \in Draws(Self) :
            \A r \in {checkTick(Self, t, d), onVideoEnded(Self, d), nextSong(Self, t, d)} :
                ~r.threw =>
                    /\ r.s.loopMode = LOOP_STREAM
                    /\ r.s.vIdx = vIdx
                    /\ r.s.history = history

\* C35: in every reachable state, right after init included, loopMode is None
\* (0), Track (1) or Stream (2).
C35_LoopModeEnum ==
    Ready => loopMode \in {LOOP_NONE, LOOP_TRACK, LOOP_STREAM}

\* The engine's own fields of a state: what is left when the two stores the
\* handlers save to are put aside.
Fields(s) ==
    [playlist |-> s.playlist, vIdx |-> s.vIdx, rIdx |-> s.rIdx,
     loopMode |-> s.loopMode, yapMode |-> s.yapMode, shuffleMode |-> s.shuffleMode,
     history |-> s.history, durations |-> s.durations]

\* C36: toggleYap, toggleLoop and toggleShuffle leave vIdx and rIdx unchanged
\* and each changes its own flag and no other field; the history is unchanged
\* by all of them except when shuffle goes from on to off.
C36_ToggleFrame ==
    Ready =>
        LET y == toggleYap(Self).s
            l == toggleLoop(Self).s
            h == toggleShuffle(Self).s
        IN  /\ Fields(y) = [Fields(Self) EXCEPT !.yapMode = ~yapMode]
            /\ l.loopMode # loopMode
            /\ Fields(l) = [Fields(Self) EXCEPT !.loopMode = l.loopMode]
            /\ Fields([h EXCEPT !.history = history])
                   = [Fields(Self) EXCEPT !.shuffleMode = ~shuffleMode]
            /\ (~shuffleMode => h.history = history)

\* Shuffle off with an entry on the history and rIdx past song 0: turning
\* shuffle on keeps the entry and the indices.
C36_Witness ==
    /\ Ready
    /\ ~shuffleMode
    /\ Len(history) > 0
    /\ rIdx > 0
    /\ toggleShuffle(Self).s.shuffleMode
    /\ toggleShuffle(Self).s.history = history
    /\ toggleShuffle(Self).s.rIdx = rIdx

\* C37: the lastTime in the settings a toggle saves equals the lastTime most
\* recently persisted before it.
C37_ToggleKeepsLastTime ==
    (Ready /\ settings.lastTime # None) =>
        \A r \in {toggleYap(Self), toggleLoop(Self), toggleShuffle(Self)} :
            r.s.settings.lastTime = settings.lastTime

\* The messages of the queue, and how many there are (MessageQueue.size).
QueueMessages == {timings[i].key : i \in 1..Len(timings)}

QueueSize == Len(timings)

\* C38: for a queue over n >= 1 messages, every block of n consecutive results
\* of next() that starts at a refill holds each message exactly once; and
\* next() returns null exactly when the queue has no messages.
C38_OncePerCycle ==
    /\ \A k \in refills :
           (QueueSize >= 1 /\ k + QueueSize - 1 <= Len(results)) =>
               \A m \in QueueMessages :
                   Cardinality({i \in k..(k + QueueSize - 1) : results[i] = m}) = 1
    /\ \A picks \in Picks(QueueSize), swapIdx \in SwapPicks(QueueSize) :
           (next(TheQueue, picks, swapIdx).ret = None) <=> (QueueSize = 0)

\* Three messages, seven results: two whole cycles and the start of a third.
C38_Witness ==
    /\ QueueSize = 3
    /\ Len(results) = 7
    /\ {1, 4, 7} \subseteq refills

\* C39: for a queue over at least 2 distinct messages, no two consecutive
\* results of next() are the same message, also where the second is the first
\* of a refilled queue.
C39_NoBackToBack ==
    QueueSize >= 2 =>
        \A i \in 1..(Len(results) - 1) : results[i] # results[i + 1]

\* Two messages over two refills: the results on both sides of each refill.
C39_Witness ==
    /\ QueueSize = 2
    /\ Len(results) >= 5
    /\ {3, 5} \subseteq refills
    /\ results[2] # results[3]
    /\ results[4] # results[5]

\* C40: for every key, every integer currentIndex (negative or beyond the list
\* included) and every totalItems >= 1, a handled result has its nextIndex
\* within 0..totalItems - 1; for totalItems <= 0 the result is unhandled with
\* nextIndex 0.
C40_NextIndexInList ==
    \A key \in EventKeys :
        LET r == resolveListNavigation(key, currentIndex, totalItems) IN
        /\ (totalItems # None /\ totalItems[1] >= 1 /\ currentIndex # None /\ r.handled) =>
               (r.nextIndex >= 0 /\ r.nextIndex <= totalItems[1] - 1)
        /\ (totalItems # None /\ totalItems[1] <= 0) =>
               r = NavResult(FALSE, 0, NAV_ACTION_NONE)

\* Enter pressed with the selected row beyond the end of the list: the last row
\* is selected.
C40_Witness ==
    /\ totalItems # None /\ totalItems[1] >= 2
    /\ currentIndex # None /\ currentIndex[1] > totalItems[1] - 1
    /\ nav = Some(NavResult(TRUE, totalItems[1] - 1, NAV_ACTION_SELECT))

====
